---------------------------- MODULE Spec2Model ----------------------------
(***************************************************************************)
(* State-machine model of the SSD layered energy engines                   *)
(* (ssd_core_engine_v5.py, ssd_core_engine_v4.py, ssd_core_engine_v3_5.py).*)
(*                                                                         *)
(* Numbers.  The engines compute with Python floats.  Here every float is  *)
(* a fixed-point integer in hundredths (One = 1.00); a float product is    *)
(* FMul, a float quotient FDiv, both rounded to the nearest hundredth.     *)
(* Pressure vectors lie on one axis, so a vector is its signed component   *)
(* and np.linalg.norm is the absolute value.                               *)
(***************************************************************************)
EXTENDS Integers, Sequences, FiniteSets, TLC

\* ------------------------------------------------------------------ bounds
\* number of step() calls explored from each initial state
MaxSteps == 2
\* longest other_states / relationships list passed to step()
MaxOthers == 1

\* ------------------------------------------------------------- arithmetic
One == 100

Abs(x) == IF x < 0 THEN -x ELSE x
Max(a, b) == IF a >= b THEN a ELSE b
Min(a, b) == IF a <= b THEN a ELSE b

\* float product a * b, rounded to the nearest hundredth
FMul(a, b) == (2 * a * b + One) \div (2 * One)
\* float quotient a / b (b # 0), rounded to the nearest hundredth
FDiv(a, b) == IF b > 0 THEN (2 * a * One + b) \div (2 * b)
                       ELSE (2 * (-a) * One + (-b)) \div (2 * (-b))

\* np.linalg.norm of a one-axis vector
Norm(v) == Abs(v)

\* ----------------------------------------------------------------- layers
\* SSDLayer, in declaration order
LayerOrder == <<"PHYSICAL", "BASE", "CORE", "UPPER">>
Layers == {LayerOrder[i] : i \in 1..Len(LayerOrder)}
Direct == "DIRECT"
Pools == Layers \cup {Direct}

LayerIndex(l) == CHOOSE i \in 1..Len(LayerOrder) : LayerOrder[i] = l

\* the eight declared directed pairs of _compute_interlayer_transfers
TransferKeys == {"upper2base", "upper2core", "base2upper", "base2core",
                 "core2base", "core2upper", "physical2base", "physical2upper"}

\* source layer whose energy a pair amount is computed from
TransferSource(k) ==
    CASE k \in {"upper2base", "upper2core"} -> "UPPER"
      [] k \in {"base2upper", "base2core"} -> "BASE"
      [] k \in {"core2base", "core2upper"} -> "CORE"
      [] k \in {"physical2base", "physical2upper"} -> "PHYSICAL"

\* destination layer a pair amount flows into
TransferDestination(k) ==
    CASE k \in {"base2upper", "core2upper", "physical2upper"} -> "UPPER"
      [] k \in {"upper2base", "core2base", "physical2base"} -> "BASE"
      [] k \in {"upper2core", "base2core"} -> "CORE"

\* structural resistance R of each layer (plain multiples of 1.0)
R_values == [l \in Layers |->
    CASE l = "PHYSICAL" -> 1000
      [] l = "BASE" -> 100
      [] l = "CORE" -> 10
      [] l = "UPPER" -> 1]

RECURSIVE SumOver(_, _)
\* sum of f[x] over the finite set S
SumOver(f, S) ==
    IF S = {} THEN 0
    ELSE LET x == CHOOSE y \in S : TRUE IN f[x] + SumOver(f, S \ {x})

\* ------------------------------------------------------- v5 parameter set
\* SSDParametersV5 with its default values, per-layer fields as functions.
\* beta_physical (0.001) and beta_base (0.005) lie below the resolution and
\* are rounded to 0.00 and 0.01.
ParamsV5Default == [
    gamma2d |-> [l \in Layers |->
        CASE l = "PHYSICAL" -> 15 [] l = "BASE" -> 8
          [] l = "CORE" -> 5 [] l = "UPPER" -> 3],
    gammad2 |-> [l \in Layers |->
        CASE l = "PHYSICAL" -> 1 [] l = "BASE" -> 3
          [] l = "CORE" -> 2 [] l = "UPPER" -> 4],
    gamma_pair |-> [k \in TransferKeys |->
        CASE k = "upper2base" -> -4 [] k = "upper2core" -> 3
          [] k = "base2upper" -> 5 [] k = "base2core" -> -2
          [] k = "core2base" -> 4 [] k = "core2upper" -> 2
          [] k = "physical2base" -> 6 [] k = "physical2upper" -> 3],
    Theta |-> [l \in Layers |->
        CASE l = "PHYSICAL" -> 20000 [] l = "BASE" -> 15000
          [] l = "CORE" -> 10000 [] l = "UPPER" -> 8000],
    beta |-> [l \in Layers |->
        CASE l = "PHYSICAL" -> 0 [] l = "BASE" -> 1
          [] l = "CORE" -> 1 [] l = "UPPER" -> 2],
    eta |-> [l \in Layers |->
        CASE l = "PHYSICAL" -> 90 [] l = "BASE" -> 80
          [] l = "CORE" -> 50 [] l = "UPPER" -> 30],
    alpha_d |-> 100,
    alpha |-> [l \in Layers |-> 100],
    rho_d |-> 10,
    rho |-> [l \in Layers |-> 10],
    lambda |-> [l \in Layers |-> 5],
    kappa_min |-> [l \in Layers |->
        CASE l = "PHYSICAL" -> 90 [] l = "BASE" -> 80
          [] l = "CORE" -> 50 [] l = "UPPER" -> 30],
    phase_transition_multiplier |-> [l \in Layers |->
        CASE l = "PHYSICAL" -> 2000 [] l = "BASE" -> 1500
          [] l = "CORE" -> 1000 [] l = "UPPER" -> 800],
    enable_phase_transition |-> TRUE,
    use_integrated_leap_detection |-> TRUE,
    dynamic_theta_sensitivity |-> 30,
    enable_interlayer_transfer |-> TRUE,
    interlayer_transfer_strength |-> 100,
    enable_social_coupling |-> TRUE,
    zeta |-> [l \in Layers |->
        CASE l = "PHYSICAL" -> 2 [] l = "BASE" -> 8
          [] l = "CORE" -> 5 [] l = "UPPER" -> 3],
    xi |-> [l \in Layers |->
        CASE l = "PHYSICAL" -> 1 [] l = "BASE" -> 4
          [] l = "CORE" -> 6 [] l = "UPPER" -> 5],
    omega |-> [l \in Layers |->
        CASE l = "PHYSICAL" -> -1 [] l = "BASE" -> -6
          [] l = "CORE" -> -3 [] l = "UPPER" -> -2],
    social_coupling_strength |-> 100,
    cooperation_threshold |-> 50,
    reservoir_capacity |-> 100000,
    use_direct_action |-> TRUE,
    use_indirect_action |-> TRUE]

\* SSDParametersV5(use_integrated_leap_detection=False): static mode
ParamsV5Static ==
    [ParamsV5Default EXCEPT !.use_integrated_leap_detection = FALSE]

\* every conversion, decay and interlayer-transfer coefficient set to zero
ZeroCoefficients(p) ==
    [p EXCEPT !.gamma2d = [l \in Layers |-> 0],
              !.gammad2 = [l \in Layers |-> 0],
              !.beta = [l \in Layers |-> 0],
              !.gamma_pair = [k \in TransferKeys |-> 0]]

\* static mode with enable_phase_transition=False
ParamsV5NoTransition ==
    [ParamsV5Static EXCEPT !.enable_phase_transition = FALSE]

\* the configurations an engine is constructed with
ParamPresetsV5 == {ParamsV5Default, ParamsV5Static, ParamsV5NoTransition,
                   ZeroCoefficients(ParamsV5Default)}


\* ---------------------------------------------------------------- v5 state
ZeroLayers == [l \in Layers |-> 0]
ZeroPools == [x \in Pools |-> 0]
ZeroTransfers == [k \in TransferKeys |-> 0]

\* SSDStateV5 constructed with the given energies and inertias, every other
\* field at its dataclass default (structural_powers: the empty dict, read
\* as no power recorded)
StateV5(E, kappa) == [
    E |-> E,
    kappa |-> kappa,
    F_direct |-> 0,
    p |-> ZeroLayers,
    j_direct |-> 0,
    j |-> ZeroLayers,
    is_critical |-> [l \in Layers |-> FALSE],
    dominant_leap_layer |-> "NONE",
    leap_type |-> "NO_LEAP",
    structural_powers |-> ZeroLayers,
    flow |-> ZeroPools,
    conversion2d |-> ZeroLayers,
    conversiond2 |-> ZeroLayers,
    transfer |-> ZeroTransfers,
    social_coupling |-> ZeroLayers,
    kappa_coupling |-> ZeroLayers]

\* SSDCoreEngineV5.__init__: the statistics of a fresh engine
EngineV5Init == [
    total_conversion2d |-> ZeroLayers,
    total_conversiond2 |-> ZeroLayers,
    total_decay |-> ZeroLayers,
    time |-> 0]

\* ------------------------------------------------------ v5 step: helpers
\* _compute_interlayer_transfers: gamma_pair * E[source] * strength
ComputeInterlayerTransfers(params, s) ==
    [k \in TransferKeys |->
        FMul(FMul(params.gamma_pair[k], s.E[TransferSource(k)]),
             params.interlayer_transfer_strength)]

\* the interlayer terms with the BASE -> CORE outflow missing from dE_base
TransferDeltaOutflowMissing(l, t) ==
    CASE l = "PHYSICAL" -> - t["physical2base"] - t["physical2upper"]
      [] l = "BASE" -> t["upper2base"] + t["core2base"] + t["physical2base"]
                       - t["base2upper"]
      [] l = "CORE" -> t["upper2core"] + t["base2core"]
                       - t["core2base"] - t["core2upper"]
      [] l = "UPPER" -> t["base2upper"] + t["core2upper"] + t["physical2upper"]
                        - t["upper2base"] - t["upper2core"]

\* the interlayer terms of dE_<layer> in step(), section 9
TransferDelta(l, t) ==
    CASE l = "PHYSICAL" -> - t["physical2base"] - t["physical2upper"]
      [] l = "BASE" -> t["upper2base"] + t["core2base"] + t["physical2base"]
                       - t["base2upper"] - t["base2core"]
      [] l = "CORE" -> t["upper2core"] + t["base2core"]
                       - t["core2base"] - t["core2upper"]
      [] l = "UPPER" -> t["base2upper"] + t["core2upper"] + t["physical2upper"]
                        - t["upper2base"] - t["upper2core"]

ZeroCoupling == [energy |-> ZeroLayers, kappa |-> ZeroLayers]

\* the band test with >= and <=: a relationship on the threshold couples
SocialPairEdgeCoupled(params, s, other, relation) ==
    LET strength == params.social_coupling_strength
        coop_threshold == params.cooperation_threshold
    IN  IF relation >= coop_threshold
        THEN [energy |-> [l \in Layers |->
                 FMul(FMul(FMul(other.E[l] - s.E[l], params.zeta[l]),
                           relation), strength)],
              kappa |-> [l \in Layers |->
                 FMul(FMul(FMul(other.kappa[l] - s.kappa[l], params.xi[l]),
                           relation), strength)]]
        ELSE IF relation <= -coop_threshold
        THEN [energy |-> [l \in Layers |->
                 FMul(FMul(FMul(params.omega[l], other.E[l]),
                           Abs(relation)), strength)],
              kappa |-> ZeroLayers]
        ELSE ZeroCoupling

\* competition scaled by the signed relationship instead of abs(relation)
SocialPairSignedCompetition(params, s, other, relation) ==
    LET strength == params.social_coupling_strength
        coop_threshold == params.cooperation_threshold
    IN  IF relation > coop_threshold
        THEN [energy |-> [l \in Layers |->
                 FMul(FMul(FMul(other.E[l] - s.E[l], params.zeta[l]),
                           relation), strength)],
              kappa |-> [l \in Layers |->
                 FMul(FMul(FMul(other.kappa[l] - s.kappa[l], params.xi[l]),
                           relation), strength)]]
        ELSE IF relation < -coop_threshold
        THEN [energy |-> [l \in Layers |->
                 FMul(FMul(FMul(params.omega[l], other.E[l]),
                           relation), strength)],
              kappa |-> ZeroLayers]
        ELSE ZeroCoupling

\* one iteration of the loop of _compute_social_coupling
SocialPair(params, s, other, relation) ==
    LET strength == params.social_coupling_strength
        coop_threshold == params.cooperation_threshold
    IN  IF relation > coop_threshold
        THEN [energy |-> [l \in Layers |->
                 FMul(FMul(FMul(other.E[l] - s.E[l], params.zeta[l]),
                           relation), strength)],
              kappa |-> [l \in Layers |->
                 FMul(FMul(FMul(other.kappa[l] - s.kappa[l], params.xi[l]),
                           relation), strength)]]
        ELSE IF relation < -coop_threshold
        THEN [energy |-> [l \in Layers |->
                 FMul(FMul(FMul(params.omega[l], other.E[l]),
                           Abs(relation)), strength)],
              kappa |-> ZeroLayers]
        ELSE ZeroCoupling

RECURSIVE SocialLoop(_, _, _, _, _, _)
\* the accumulation over zip(other_states, relationships), from pair i on
SocialLoop(params, s, others, rels, i, acc) ==
    IF i > Min(Len(others), Len(rels)) THEN acc
    ELSE LET c == SocialPair(params, s, others[i], rels[i])
         IN SocialLoop(params, s, others, rels, i + 1,
               [energy |-> [l \in Layers |-> acc.energy[l] + c.energy[l]],
                kappa |-> [l \in Layers |-> acc.kappa[l] + c.kappa[l]]])

\* _compute_social_coupling
ComputeSocialCoupling(params, s, others, rels) ==
    IF ~params.enable_social_coupling \/ Len(others) = 0
    THEN ZeroCoupling
    ELSE SocialLoop(params, s, others, rels, 1, ZeroCoupling)

\* _calculate_structural_powers: |p| * E * kappa * R
CalculateStructuralPowers(s, p) ==
    [l \in Layers |->
        FMul(FMul(Norm(p[l]), s.E[l]), s.kappa[l]) * R_values[l]]

\* min(1.0, structural_power / (resistance + 1.0))
CappedInfluence(power, denominator) ==
    IF denominator > 0 /\ power >= denominator THEN One
    ELSE Min(One, FDiv(power, denominator))

\* the dynamic threshold without its lower limit
ComputeDynamicThetaUnfloored(params, base_theta, structural_power, kappa, R) ==
    LET resistance == kappa * R
        capped == CappedInfluence(structural_power, resistance + One)
        sensitivity == params.dynamic_theta_sensitivity
    IN  FMul(base_theta, One - FMul(sensitivity, capped))

\* _compute_dynamic_theta
ComputeDynamicTheta(params, base_theta, structural_power, kappa, R) ==
    LET resistance == kappa * R
        capped == CappedInfluence(structural_power, resistance + One)
        sensitivity == params.dynamic_theta_sensitivity
        dynamic_theta == FMul(base_theta, One - FMul(sensitivity, capped))
        min_theta == FMul(base_theta, 30)
    IN  Max(min_theta, dynamic_theta)

RECURSIVE MaxScanKeepingLast(_, _, _, _)
\* the scan replacing its best on an equal power: the last of the greatest
MaxScanKeepingLast(i, best, critical, powers) ==
    IF i > Len(LayerOrder) THEN best
    ELSE LET l == LayerOrder[i]
         IN  IF l \notin critical
             THEN MaxScanKeepingLast(i + 1, best, critical, powers)
             ELSE IF best = "NONE" \/ powers[l] >= powers[best]
                  THEN MaxScanKeepingLast(i + 1, l, critical, powers)
                  ELSE MaxScanKeepingLast(i + 1, best, critical, powers)

RECURSIVE MaxScan(_, _, _, _)
\* max(critical_layers.items(), key=power): the scan keeps the first of the
\* greatest, in insertion order PHYSICAL, BASE, CORE, UPPER
MaxScan(i, best, critical, powers) ==
    IF i > Len(LayerOrder) THEN best
    ELSE LET l == LayerOrder[i]
         IN  IF l \notin critical THEN MaxScan(i + 1, best, critical, powers)
             ELSE IF best = "NONE" \/ powers[l] > powers[best]
                  THEN MaxScan(i + 1, l, critical, powers)
                  ELSE MaxScan(i + 1, best, critical, powers)

\* the leap type without the layer's name
LeapNameBare(l) == "LEAP"

\* f'LEAP_{dominant_layer}'
LeapName(l) == "LEAP_" \o l

\* a detection that latches: a layer flagged critical on entry stays critical
IntegratedLeapDetectionLatched(params, s, powers) ==
    LET theta_dynamic == [l \in Layers |->
            ComputeDynamicTheta(params, params.Theta[l], powers[l],
                                s.kappa[l], R_values[l])]
        critical_layers == {l \in Layers :
                                s.E[l] < theta_dynamic[l] \/ s.is_critical[l]}
    IN  IF critical_layers # {}
        THEN LET dominant_layer == MaxScan(1, "NONE", critical_layers, powers)
             IN [is_critical |-> [l \in Layers |-> l \in critical_layers],
                 dominant_layer |-> dominant_layer,
                 leap_type |-> LeapName(dominant_layer)]
        ELSE [is_critical |-> [l \in Layers |-> FALSE],
              dominant_layer |-> "NONE",
              leap_type |-> "NO_LEAP"]

\* _integrated_leap_detection
IntegratedLeapDetection(params, s, powers) ==
    LET theta_dynamic == [l \in Layers |->
            ComputeDynamicTheta(params, params.Theta[l], powers[l],
                                s.kappa[l], R_values[l])]
        critical_layers == {l \in Layers : s.E[l] < theta_dynamic[l]}
    IN  IF critical_layers # {}
        THEN LET dominant_layer == MaxScan(1, "NONE", critical_layers, powers)
             IN [is_critical |-> [l \in Layers |-> l \in critical_layers],
                 dominant_layer |-> dominant_layer,
                 leap_type |-> LeapName(dominant_layer)]
        ELSE [is_critical |-> [l \in Layers |-> FALSE],
              dominant_layer |-> "NONE",
              leap_type |-> "NO_LEAP"]

\* rates amplified for the dominant layer only
ComputeDynamicGammaDominantOnly(params, leap_result) ==
    IF leap_result.leap_type = "NO_LEAP" THEN params.gamma2d
    ELSE [l \in Layers |->
        IF leap_result.dominant_layer = l /\ leap_result.is_critical[l]
        THEN FMul(params.gamma2d[l], params.phase_transition_multiplier[l])
        ELSE params.gamma2d[l]]

\* _compute_dynamic_gamma: the conversion rates of this step, local values
ComputeDynamicGamma(params, leap_result) ==
    IF leap_result.leap_type = "NO_LEAP" THEN params.gamma2d
    ELSE [l \in Layers |->
        LET m == params.phase_transition_multiplier[l]
            g1 == IF leap_result.dominant_layer = l /\ leap_result.is_critical[l]
                  THEN FMul(params.gamma2d[l], m)
                  ELSE params.gamma2d[l]
        IN  IF leap_result.is_critical[l] /\ leap_result.dominant_layer # l
            THEN FMul(g1, One + FMul(m, 50))
            ELSE g1]

\* the static test setting the flags without multiplying the rates
LegacyPhaseTransitionUnamplified(params, s) ==
    [is_critical |-> [l \in Layers |->
                        params.enable_phase_transition
                        /\ s.E[l] < params.Theta[l]],
     dominant_layer |-> "NONE",
     leap_type |-> "NO_LEAP",
     gamma |-> params.gamma2d]

\* the static test written with E <= Theta instead of E < Theta
LegacyPhaseTransitionInclusive(params, s) ==
    LET crit == [l \in Layers |->
                    params.enable_phase_transition /\ s.E[l] <= params.Theta[l]]
    IN  [is_critical |-> crit,
         dominant_layer |-> "NONE",
         leap_type |-> "NO_LEAP",
         gamma |-> [l \in Layers |->
                      IF crit[l]
                      THEN FMul(params.gamma2d[l],
                                params.phase_transition_multiplier[l])
                      ELSE params.gamma2d[l]]]

\* _legacy_phase_transition: static Theta test, flags and labels reset first
LegacyPhaseTransition(params, s) ==
    LET crit == [l \in Layers |->
                    params.enable_phase_transition /\ s.E[l] < params.Theta[l]]
    IN  [is_critical |-> crit,
         dominant_layer |-> "NONE",
         leap_type |-> "NO_LEAP",
         gamma |-> [l \in Layers |->
                      IF crit[l]
                      THEN FMul(params.gamma2d[l],
                                params.phase_transition_multiplier[l])
                      ELSE params.gamma2d[l]]]


\* --------------------------------------------------------------- v5 step
\* the amplified rates of the step written back into the ParameterSet
ParamsWithGammaWritten(params, gamma) == [params EXCEPT !.gamma2d = gamma]

\* what step() leaves in self.params: the ParameterSet is only read, the
\* amplified rates (gamma) stay local to the call
ParamsAfterStepV5(params, gamma) == params

\* the natural decay of section 5 applied only to a layer under pressure
KappaDecayUnderPressureOnly(params, kappa, p, dt) ==
    [l \in Layers |->
        IF p[l] = 0 THEN kappa[l]
        ELSE FMul(kappa[l] + FMul(FMul(params.eta[l], Norm(p[l])), dt),
                  One - FMul(params.lambda[l], dt))]

\* sections 4 and 5 of step(): kappa += eta * |p| * dt, then
\* kappa *= (1 - lambda * dt)
KappaLearnDecayV5(params, kappa, p, dt) ==
    [l \in Layers |->
        FMul(kappa[l] + FMul(FMul(params.eta[l], Norm(p[l])), dt),
             One - FMul(params.lambda[l], dt))]

\* the floor applied before the social term is added instead of after
KappaClampBeforeCoupling(params, kappa, coupling_kappa, dt) ==
    [l \in Layers |->
        Max(params.kappa_min[l], kappa[l]) + FMul(coupling_kappa[l], dt)]

\* section 5.5 and the floor of step(): the social term is added, then
\* kappa = max(kappa_min, kappa)
KappaCoupleClampV5(params, kappa, coupling_kappa, dt) ==
    [l \in Layers |->
        Max(params.kappa_min[l], kappa[l] + FMul(coupling_kappa[l], dt))]

\* E += dE * dt with the max(0.0, E) that follows it left out
IntegrateUnclamped(E, dE, dt) == E + FMul(dE, dt)

\* E += dE * dt followed by max(0.0, E), section 10 of step()
Integrate(E, dE, dt) == Max(0, E + FMul(dE, dt))

\* production from the pressure alone, the reaction not subtracted
ProductionIgnoringReaction(params, l, p, j) == FMul(params.alpha[l], Norm(p))

\* E_<layer>_production of step(), section 2: alpha * norm(p - j)
ProductionV5(params, l, p, j) == FMul(params.alpha[l], Norm(p - j))

\* SSDCoreEngineV5.step.  F is the optional F_direct (<<>> is None), soc the
\* optional other_states / relationships pair of lists.  The result holds
\* the mutated state, the engine statistics, the ParameterSet and the
\* locals of the call.
StepV5(params, eng, s, p, F, soc, dt) ==
    LET \* 1. reaction, from the inertia the call starts with
        j0 == [l \in Layers |-> FMul(s.kappa[l], p[l])]
        \* 2. production
        production == [l \in Layers |-> ProductionV5(params, l, p[l], j0[l])]
        E_direct_production ==
            IF F # <<>> THEN FMul(params.alpha_d, Norm(F[1])) ELSE 0
        \* 3. reaction decay
        j1 == [l \in Layers |-> FMul(j0[l], One - params.rho[l])]
        \* 4., 5. learning and decay of kappa, before the social term is read
        kappa_mid == KappaLearnDecayV5(params, s.kappa, p, dt)
        s_mid == [s EXCEPT !.p = p, !.j = j1, !.j_direct = 0,
                           !.F_direct = IF F # <<>> THEN F[1] ELSE @,
                           !.kappa = kappa_mid]
        \* 5.5 social coupling, first evaluation (applied to kappa)
        coupling_kappa ==
            IF soc.given
            THEN ComputeSocialCoupling(params, s_mid, soc.others,
                                       soc.relationships).kappa
            ELSE ZeroLayers
        kappa_new == KappaCoupleClampV5(params, kappa_mid, coupling_kappa, dt)
        s_k == [s_mid EXCEPT !.kappa = kappa_new]
        \* 6. leap detection
        integrated == params.use_integrated_leap_detection
        powers == CalculateStructuralPowers(s_k, p)
        leap == IF integrated THEN IntegratedLeapDetection(params, s_k, powers)
                ELSE LegacyPhaseTransition(params, s_k)
        gamma == IF integrated THEN ComputeDynamicGamma(params, leap)
                 ELSE leap.gamma
        \* 7. conversions and transfers
        conversion2d == [l \in Layers |-> FMul(gamma[l], s.E[l])]
        conversiond2 == [l \in Layers |-> FMul(params.gammad2[l], s.E[Direct])]
        transfers == IF params.enable_interlayer_transfer
                     THEN ComputeInterlayerTransfers(params, s_k)
                     ELSE ZeroTransfers
        \* 8. decay
        decay == [l \in Layers |-> FMul(params.beta[l], s.E[l])]
        \* 8.5 social coupling, second evaluation (applied to energy, recorded)
        social_coupling ==
            IF soc.given
            THEN ComputeSocialCoupling(params, s_k, soc.others, soc.relationships)
            ELSE ZeroCoupling
        \* 9. energy differential equations
        dE == [x \in Pools |->
            IF x = Direct
            THEN E_direct_production + SumOver(conversion2d, Layers)
                 - SumOver(conversiond2, Layers)
            ELSE production[x] - conversion2d[x] + conversiond2[x] - decay[x]
                 + TransferDelta(x, transfers) + social_coupling.energy[x]]
        \* 10. integration and clamp
        E_new == [x \in Pools |-> Integrate(s.E[x], dE[x], dt)]
    IN  [state |-> [s_k EXCEPT
            !.E = E_new,
            !.is_critical = leap.is_critical,
            !.dominant_leap_layer = leap.dominant_layer,
            !.leap_type = leap.leap_type,
            !.structural_powers = IF integrated THEN powers ELSE @,
            !.flow = dE,
            !.conversion2d = conversion2d,
            !.conversiond2 = conversiond2,
            !.transfer = transfers,
            !.social_coupling = social_coupling.energy,
            !.kappa_coupling = social_coupling.kappa],
         engine |-> [
            total_conversion2d |-> [l \in Layers |->
                eng.total_conversion2d[l] + FMul(conversion2d[l], dt)],
            total_conversiond2 |-> [l \in Layers |->
                eng.total_conversiond2[l] + FMul(conversiond2[l], dt)],
            total_decay |-> [l \in Layers |->
                eng.total_decay[l] + FMul(decay[l], dt)],
            time |-> eng.time + dt],
         params |-> ParamsAfterStepV5(params, gamma),
         locals |-> [j |-> j0, production |-> production, decay |-> decay,
                     gamma |-> gamma, powers |-> powers,
                     coupling_kappa |-> coupling_kappa]]


\* ================================================================ v4 engine
Layers4 == {"BASE", "CORE", "UPPER"}
Pools4 == Layers4 \cup {Direct}
ZeroLayers4 == [l \in Layers4 |-> 0]

\* SSDParametersV4 with its default values (beta_base 0.005 rounded to 0.01)
ParamsV4Default == [
    gamma2d |-> [l \in Layers4 |->
        CASE l = "BASE" -> 8 [] l = "CORE" -> 5 [] l = "UPPER" -> 3],
    gammad2 |-> [l \in Layers4 |->
        CASE l = "BASE" -> 3 [] l = "CORE" -> 2 [] l = "UPPER" -> 4],
    Theta |-> [l \in Layers4 |->
        CASE l = "BASE" -> 15000 [] l = "CORE" -> 10000 [] l = "UPPER" -> 8000],
    beta |-> [l \in Layers4 |->
        CASE l = "BASE" -> 1 [] l = "CORE" -> 1 [] l = "UPPER" -> 2],
    eta |-> [l \in Layers4 |->
        CASE l = "BASE" -> 80 [] l = "CORE" -> 50 [] l = "UPPER" -> 30],
    alpha_d |-> 100,
    alpha |-> [l \in Layers4 |-> 100],
    rho_d |-> 10,
    rho |-> [l \in Layers4 |-> 10],
    lambda |-> [l \in Layers4 |-> 5],
    kappa_min |-> [l \in Layers4 |->
        CASE l = "BASE" -> 80 [] l = "CORE" -> 50 [] l = "UPPER" -> 30],
    enable_phase_transition |-> TRUE,
    phase_transition_multiplier |-> [l \in Layers4 |->
        CASE l = "BASE" -> 1500 [] l = "CORE" -> 1000 [] l = "UPPER" -> 800],
    reservoir_capacity |-> 100000,
    use_direct_action |-> TRUE,
    use_indirect_action |-> TRUE]

\* conversion and decay coefficients set to zero
ZeroCoefficientsV4(p) ==
    [p EXCEPT !.gamma2d = ZeroLayers4, !.gammad2 = ZeroLayers4,
              !.beta = ZeroLayers4]

\* SSDParametersV4(enable_phase_transition=False)
ParamsV4NoTransition ==
    [ParamsV4Default EXCEPT !.enable_phase_transition = FALSE]

ParamPresetsV4 == {ParamsV4Default, ParamsV4NoTransition,
                   ZeroCoefficientsV4(ParamsV4Default)}

\* SSDStateV4 constructed with the given energies and inertias
StateV4(E, kappa) == [
    E |-> E,
    kappa |-> kappa,
    F_direct |-> 0,
    p |-> ZeroLayers4,
    j_direct |-> 0,
    j |-> ZeroLayers4,
    is_critical |-> [l \in Layers4 |-> FALSE],
    flow |-> [x \in Pools4 |-> 0],
    conversion2d |-> ZeroLayers4,
    conversiond2 |-> ZeroLayers4]

\* SSDCoreEngineV4.__init__
EngineV4Init(params) == [
    reservoir_E |-> params.reservoir_capacity,
    total_conversion2d |-> ZeroLayers4,
    total_conversiond2 |-> ZeroLayers4,
    total_decay |-> ZeroLayers4,
    time |-> 0]

\* what step() leaves in self.params (v4 reads it only)
ParamsAfterStepV4(params, gamma) == params

\* E_<layer>_production of the v4 step(), section 4:
\* alpha * max(0, |p| - |j|)
ProductionV4(params, l, p, j) ==
    FMul(params.alpha[l], Max(0, Norm(p) - Norm(j)))

\* section 5 of the v4 step(): learning law, integration, floor
KappaUpdateV4(params, l, kappa, p_mag, j_mag, dt) ==
    LET dkappa == FMul(params.eta[l],
                       FMul(p_mag, j_mag)
                       - FMul(params.rho[l], FMul(j_mag, j_mag)))
                  - FMul(params.lambda[l], kappa - params.kappa_min[l])
    IN  Max(params.kappa_min[l], kappa + FMul(dkappa, dt))

\* SSDCoreEngineV4.step; contact is the optional contact_pressure
StepV4(params, eng, s, p, dt, contact) ==
    LET F_direct == IF params.use_direct_action /\ contact # <<>>
                    THEN contact[1] ELSE 0
        j_direct == FMul(s.kappa["BASE"], F_direct)
        j == [l \in Layers4 |-> FMul(s.kappa[l], p[l])]
        E_direct_production ==
            FMul(params.alpha_d, Max(0, Norm(F_direct) - Norm(j_direct)))
        production == [l \in Layers4 |-> ProductionV4(params, l, p[l], j[l])]
        kappa_new == [l \in Layers4 |->
            KappaUpdateV4(params, l, s.kappa[l], Norm(p[l]), Norm(j[l]), dt)]
        crit == [l \in Layers4 |->
            params.enable_phase_transition /\ s.E[l] < params.Theta[l]]
        gamma == [l \in Layers4 |->
            IF crit[l]
            THEN FMul(params.gamma2d[l], params.phase_transition_multiplier[l])
            ELSE params.gamma2d[l]]
        conversion2d == [l \in Layers4 |-> FMul(gamma[l], s.E[l])]
        conversiond2 == [l \in Layers4 |-> FMul(params.gammad2[l], s.E[Direct])]
        decay == [l \in Layers4 |-> FMul(params.beta[l], s.E[l])]
        dE == [x \in Pools4 |->
            IF x = Direct
            THEN E_direct_production + SumOver(conversion2d, Layers4)
                 - SumOver(conversiond2, Layers4)
            ELSE production[x] - conversion2d[x] + conversiond2[x] - decay[x]]
        E_new == [x \in Pools4 |-> Integrate(s.E[x], dE[x], dt)]
    IN  [state |-> [s EXCEPT
            !.F_direct = F_direct, !.p = p, !.j_direct = j_direct, !.j = j,
            !.kappa = kappa_new, !.is_critical = crit, !.E = E_new,
            !.flow = dE, !.conversion2d = conversion2d,
            !.conversiond2 = conversiond2],
         engine |-> [eng EXCEPT
            !.total_conversion2d = [l \in Layers4 |-> @[l] + FMul(conversion2d[l], dt)],
            !.total_conversiond2 = [l \in Layers4 |-> @[l] + FMul(conversiond2[l], dt)],
            !.total_decay = [l \in Layers4 |-> @[l] + FMul(decay[l], dt)],
            !.time = @ + dt],
         params |-> ParamsAfterStepV4(params, gamma),
         locals |-> [j |-> j, production |-> production, decay |-> decay,
                     gamma |-> gamma]]


\* ============================================================== v3.5 engine
\* SSDParametersV3_5 with its default values
ParamsV35Default == [
    use_direct_action |-> TRUE,
    use_indirect_action |-> TRUE,
    amplification_factor |-> 100,
    G0 |-> 50,
    g |-> 30,
    alpha |-> 50,
    beta_decay |-> 10,
    gamma_i2d |-> 0,
    gamma_d2i |-> 0,
    Theta_critical |-> 50000,
    enable_phase_transition |-> FALSE,
    phase_transition_multiplier |-> 1000,
    reservoir_capacity |-> 100000000]

\* create_physics_params()
PhysicsParams ==
    [ParamsV35Default EXCEPT !.use_indirect_action = FALSE,
                             !.beta_decay = 0]

\* create_social_params()
SocialParams ==
    [ParamsV35Default EXCEPT !.use_direct_action = FALSE,
                             !.amplification_factor = 10000,
                             !.gamma_i2d = 1,
                             !.gamma_d2i = 5]

\* create_revolution_params()
RevolutionParams ==
    [ParamsV35Default EXCEPT !.amplification_factor = 5000,
                             !.gamma_i2d = 10,
                             !.gamma_d2i = 50,
                             !.beta_decay = 1,
                             !.enable_phase_transition = TRUE]

ParamPresetsV35 == {PhysicsParams, SocialParams, RevolutionParams}

\* SSDStateV3_5(kappa, E_direct, E_indirect)
StateV35(kappa, E_direct, E_indirect) == [
    kappa |-> kappa,
    F_direct |-> 0,
    p_indirect |-> 0,
    E_direct |-> E_direct,
    E_indirect |-> E_indirect,
    E_direct_flow |-> 0,
    E_indirect_flow |-> 0,
    conversion_i2d |-> 0,
    conversion_d2i |-> 0,
    decay_rate |-> 0,
    is_critical |-> FALSE,
    phase_transition_count |-> 0]

\* SSDCoreEngineV3_5.__init__
EngineV35Init(params) == [
    reservoir_E |-> params.reservoir_capacity,
    total_conversion_i2d |-> 0,
    total_conversion_d2i |-> 0,
    total_decay |-> 0,
    time |-> 0]

\* a critical check that multiplies on entering and leaves the rate
\* multiplied on leaving
CriticalCheckWithoutRestore(params, s) ==
    IF params.enable_phase_transition
       /\ s.E_indirect < params.Theta_critical /\ ~s.is_critical
    THEN [params |-> [params EXCEPT !.gamma_i2d =
                        FMul(@, params.phase_transition_multiplier)],
          is_critical |-> TRUE,
          phase_transition_count |-> s.phase_transition_count + 1]
    ELSE IF params.enable_phase_transition
            /\ s.E_indirect >= params.Theta_critical /\ s.is_critical
    THEN [params |-> params,
          is_critical |-> FALSE,
          phase_transition_count |-> s.phase_transition_count]
    ELSE [params |-> params,
          is_critical |-> s.is_critical,
          phase_transition_count |-> s.phase_transition_count]

\* section 7 of the v3.5 step(): the critical check, which multiplies
\* self.params.gamma_i2d on entering the critical regime and divides it on
\* leaving.  Yields the ParameterSet and the flag and count of the state.
CriticalCheckV35(params, s) ==
    IF params.enable_phase_transition
       /\ s.E_indirect < params.Theta_critical /\ ~s.is_critical
    THEN [params |-> [params EXCEPT !.gamma_i2d =
                        FMul(@, params.phase_transition_multiplier)],
          is_critical |-> TRUE,
          phase_transition_count |-> s.phase_transition_count + 1]
    ELSE IF params.enable_phase_transition
            /\ s.E_indirect >= params.Theta_critical /\ s.is_critical
    THEN [params |-> [params EXCEPT !.gamma_i2d =
                        FDiv(@, params.phase_transition_multiplier)],
          is_critical |-> FALSE,
          phase_transition_count |-> s.phase_transition_count]
    ELSE [params |-> params,
          is_critical |-> s.is_critical,
          phase_transition_count |-> s.phase_transition_count]

\* SSDCoreEngineV3_5.step; contact is the optional contact_pressure
\* a reservoir that hands out the amplification energy whatever it holds
ReservoirNeverRefuses(eng, E_amplification) == TRUE

\* the reservoir holds at least the amplification energy asked of it
ReservoirHolds(eng, E_amplification) == eng.reservoir_E >= E_amplification

StepV35(params, eng, s, p_external, dt, contact) ==
    LET F_direct == IF params.use_direct_action /\ contact # <<>>
                    THEN contact[1] ELSE 0
        p_indirect == IF params.use_indirect_action
                      THEN FMul(p_external, params.amplification_factor)
                      ELSE 0
        G == params.G0 + FMul(params.g, s.kappa)
        E_direct_production ==
            IF params.use_direct_action
            THEN FMul(params.alpha,
                      Max(0, Norm(F_direct) - FMul(G, s.kappa)))
            ELSE 0
        base_production ==
            FMul(params.alpha,
                 Max(0, Norm(p_indirect) - FMul(FMul(G, s.kappa), 50)))
        E_amplification ==
            FMul(base_production, params.amplification_factor - One)
        drawn == params.use_indirect_action
                 /\ params.amplification_factor > One
                 /\ ReservoirHolds(eng, E_amplification)
        E_indirect_production ==
            IF ~params.use_indirect_action THEN 0
            ELSE IF drawn THEN base_production + E_amplification
            ELSE base_production
        conversion_i2d == FMul(params.gamma_i2d, s.E_indirect)
        conversion_d2i == FMul(params.gamma_d2i, s.E_direct)
        decay == FMul(params.beta_decay, s.E_indirect)
        check == CriticalCheckV35(params, s)
        dE_direct == E_direct_production + conversion_i2d - conversion_d2i
        dE_indirect == E_indirect_production - conversion_i2d
                       + conversion_d2i - decay
    IN  [state |-> [s EXCEPT
            !.F_direct = F_direct, !.p_indirect = p_indirect,
            !.is_critical = check.is_critical,
            !.phase_transition_count = check.phase_transition_count,
            !.E_direct = Integrate(s.E_direct, dE_direct, dt),
            !.E_indirect = Integrate(s.E_indirect, dE_indirect, dt),
            !.E_direct_flow = dE_direct, !.E_indirect_flow = dE_indirect,
            !.conversion_i2d = conversion_i2d,
            !.conversion_d2i = conversion_d2i,
            !.decay_rate = decay],
         engine |-> [eng EXCEPT
            !.reservoir_E = IF drawn THEN @ - E_amplification ELSE @,
            !.total_conversion_i2d = @ + FMul(conversion_i2d, dt),
            !.total_conversion_d2i = @ + FMul(conversion_d2i, dt),
            !.total_decay = @ + FMul(decay, dt),
            !.time = @ + dt],
         params |-> check.params,
         locals |-> [E_direct_production |-> E_direct_production,
                     base_production |-> IF params.use_indirect_action
                                         THEN base_production ELSE 0,
                     E_indirect_production |-> E_indirect_production,
                     E_amplification |-> E_amplification, drawn |-> drawn]]


\* ============================================================ state machine
\* ver      which engine class the run instantiates
\* params   the ParameterSet object held by the engine (self.params)
\* state    the agent's state object, mutated in place by step()
\* engine   the engine's own fields (statistics, time, reservoir)
\* cast     the other agents and relationships the caller passes to step()
\* last     the arguments, the state on entry and the locals of the last call
\* nsteps   number of step() calls made
VARIABLES ver, params, state, engine, cast, last, nsteps

vars == <<ver, params, state, engine, cast, last, nsteps>>

\* time steps passed by the callers of the v4 and v3.5 engines:
\* dt = 0.5, 1.0
DtValues == {50, 100}

EnergiesV5(physical, base, core, upper, direct) ==
    [x \in Pools |->
        CASE x = "PHYSICAL" -> physical [] x = "BASE" -> base
          [] x = "CORE" -> core [] x = "UPPER" -> upper
          [] x = Direct -> direct]

\* E_physical = 10, E_base = 100 (equal powers under equal pressure and
\* inertia), CORE on its threshold, UPPER just below
MixedEnergies == EnergiesV5(1000, 10000, 10000, 7900, 0)

\* designer-chosen initial energies: a fresh state; the worked scenario
\* (E_base = 120); the mixed profile; PHYSICAL and BASE on or above their
\* thresholds with a charged direct pool
EnergyProfilesV5 == {
    EnergiesV5(0, 0, 0, 0, 0),
    EnergiesV5(0, 12000, 0, 0, 0),
    MixedEnergies,
    EnergiesV5(25000, 15000, 12000, 1000, 10000)}

\* designer-chosen initial inertias of the v4 states: the default 1.0, and 2.0
KappaLevels == {100, 200}

\* every profile with the default inertia 1.0, and the mixed profile with
\* inertia 0.95 (above every floor, below 1)
InitStatesV5 ==
    {StateV5(E, [l \in Layers |-> 100]) : E \in EnergyProfilesV5}
    \cup {StateV5(MixedEnergies, [l \in Layers |-> 95])}

\* snapshots of other agents: one drained with inertia below every floor,
\* one charged with high inertia
OtherLow == StateV5(EnergiesV5(0, 0, 0, 0, 0), [l \in Layers |-> 10])
OtherHigh == StateV5(EnergiesV5(30000, 30000, 30000, 30000, 0),
                     [l \in Layers |-> 300])

\* (other agent, relationship): cooperative, competitive, and on the edge
\* of the neutral band
PairOptions == {<<OtherLow, 100>>, <<OtherHigh, -100>>, <<OtherHigh, 50>>}

NoCast == [given |-> FALSE, others |-> <<>>, relationships |-> <<>>]

CastOf(q) == [given |-> TRUE,
              others |-> [i \in DOMAIN q |-> q[i][1]],
              relationships |-> [i \in DOMAIN q |-> q[i][2]]]

\* other_states / relationships as passed by the caller: None, or lists of
\* up to MaxOthers pairs
Casts == {NoCast} \cup
         UNION {{CastOf(q) : q \in [1..n -> PairOptions]} : n \in 0..MaxOthers}

\* pressure patterns: 1.0 on every layer; -2.0 on BASE only
UniformPressure == [l \in Layers |-> 100]
BasePressure == [l \in Layers |-> IF l = "BASE" THEN -200 ELSE 0]

\* (p_physical .. p_upper, F_direct, dt) of one call: no pressure, uniform
\* pressure with a direct force, pressure on BASE only; dt = 1.0, 0.5 or 0
CallsV5 == {
    [p |-> ZeroLayers, F |-> <<>>, dt |-> 100],
    [p |-> UniformPressure, F |-> <<100>>, dt |-> 100],
    [p |-> UniformPressure, F |-> <<100>>, dt |-> 0],
    [p |-> BasePressure, F |-> <<>>, dt |-> 100],
    [p |-> BasePressure, F |-> <<>>, dt |-> 50]}

EnergiesV4(base, core, upper, direct) ==
    [x \in Pools4 |->
        CASE x = "BASE" -> base [] x = "CORE" -> core
          [] x = "UPPER" -> upper [] x = Direct -> direct]

InitStatesV4 ==
    {StateV4(E, [l \in Layers4 |-> k]) :
        E \in {EnergiesV4(0, 0, 0, 0), EnergiesV4(12000, 0, 0, 0),
               EnergiesV4(15000, 12000, 1000, 10000)},
        k \in KappaLevels}

CallInputsV4 == {
    [p |-> ZeroLayers4, contact |-> <<>>],
    [p |-> [l \in Layers4 |-> 100], contact |-> <<500>>],
    [p |-> [l \in Layers4 |-> IF l = "BASE" THEN -200 ELSE 0], contact |-> <<>>]}

\* the initial states of the module's own tests 1-3
InitStatesV35 == {StateV35(100, 10000, 0), StateV35(50, 0, 1000),
                  StateV35(100, 0, 60000)}

CallInputsV35 == {
    [p |-> 0, contact |-> <<>>],
    [p |-> 0, contact |-> <<500>>],
    [p |-> 1000, contact |-> <<>>]}

NotCalled == [called |-> FALSE]

InitV5 ==
    /\ ver = "v5"
    /\ params \in ParamPresetsV5
    /\ state \in InitStatesV5
    /\ engine = EngineV5Init
    /\ cast \in Casts

InitV4 ==
    /\ ver = "v4"
    /\ params \in ParamPresetsV4
    /\ state \in InitStatesV4
    /\ engine = EngineV4Init(params)
    /\ cast = NoCast

InitV35 ==
    /\ ver = "v35"
    /\ params \in ParamPresetsV35
    /\ state \in InitStatesV35
    /\ engine = EngineV35Init(params)
    /\ cast = NoCast

Init ==
    /\ InitV5 \/ InitV4 \/ InitV35
    /\ last = NotCalled
    /\ nsteps = 0

\* one call engine.step(state, p_physical, p_base, p_core, p_upper,
\* F_direct, other_states, relationships, dt) on the v5 engine
CallStepV5 ==
    /\ ver = "v5"
    /\ nsteps < MaxSteps
    /\ \E c \in CallsV5 :
        \E r \in {StepV5(params, engine, state, c.p, c.F, cast, c.dt)} :
            /\ state' = r.state
            /\ engine' = r.engine
            /\ params' = r.params
            /\ last' = [called |-> TRUE, pre |-> state, p |-> c.p,
                        F |-> c.F, dt |-> c.dt, locals |-> r.locals]
    /\ nsteps' = nsteps + 1
    /\ UNCHANGED <<ver, cast>>

\* one call engine.step(state, p_base, p_core, p_upper, dt,
\* contact_pressure) on the v4 engine
CallStepV4 ==
    /\ ver = "v4"
    /\ nsteps < MaxSteps
    /\ \E inp \in CallInputsV4, dt \in DtValues :
        \E r \in {StepV4(params, engine, state, inp.p, dt, inp.contact)} :
            /\ state' = r.state
            /\ engine' = r.engine
            /\ params' = r.params
            /\ last' = [called |-> TRUE, pre |-> state, p |-> inp.p,
                        F |-> inp.contact, dt |-> dt, locals |-> r.locals]
    /\ nsteps' = nsteps + 1
    /\ UNCHANGED <<ver, cast>>

\* one call engine.step(state, p_external, dt, contact_pressure) on the
\* v3.5 engine
CallStepV35 ==
    /\ ver = "v35"
    /\ nsteps < MaxSteps
    /\ \E inp \in CallInputsV35, dt \in DtValues :
        \E r \in {StepV35(params, engine, state, inp.p, dt, inp.contact)} :
            /\ state' = r.state
            /\ engine' = r.engine
            /\ params' = r.params
            /\ last' = [called |-> TRUE, pre |-> state, p |-> inp.p,
                        F |-> inp.contact, dt |-> dt, locals |-> r.locals]
    /\ nsteps' = nsteps + 1
    /\ UNCHANGED <<ver, cast>>

Next == CallStepV5 \/ CallStepV4 \/ CallStepV35

Spec == Init /\ [][Next]_vars

\* ================================================================ properties
\* the engine is the v4 or the v5 class (per-layer energies and inertias)
Layered == ver \in {"v5", "v4"}

\* the layers of the running engine
LayersOf == IF ver = "v5" THEN Layers ELSE Layers4

\* C1: after every step() call every energy of the agent is >= 0: each
\* layer energy and the direct energy of the v5 and v4 engines, E_direct and
\* E_indirect of the v3.5 engine.
EnergiesNonNegative ==
    last.called =>
        IF Layered
        THEN \A x \in DOMAIN state.E : state.E[x] >= 0
        ELSE state.E_direct >= 0 /\ state.E_indirect >= 0

\* a v5 step whose integration E + dE * dt of some pool fell below zero and
\* was clamped to 0
EnergyClampedAtZero ==
    /\ last.called /\ ver = "v5"
    /\ \E x \in Pools :
        /\ last.pre.E[x] + FMul(state.flow[x], last.dt) < 0
        /\ state.E[x] = 0

\* C2: after every step() call of the v5 and v4 engines each layer's inertia
\* kappa is >= that layer's floor kappa_min, also when learning, decay and
\* the social kappa propagation from other agents act in the same step.
KappaAboveFloor ==
    last.called /\ Layered =>
        \A l \in LayersOf : state.kappa[l] >= params.kappa_min[l]

\* a v5 step in which another agent of lower inertia pulled kappa down: the
\* value after learning, decay and the (negative) social term lay below the
\* floor, and the step left kappa on the floor
KappaPulledBelowFloor ==
    /\ last.called /\ ver = "v5" /\ cast.given /\ last.dt > 0
    /\ \E l \in Layers :
        /\ last.locals.coupling_kappa[l] < 0
        /\ KappaLearnDecayV5(params, last.pre.kappa, last.p, last.dt)[l]
               >= params.kappa_min[l]
        /\ KappaLearnDecayV5(params, last.pre.kappa, last.p, last.dt)[l]
             + FMul(last.locals.coupling_kappa[l], last.dt)
               < params.kappa_min[l]
        /\ state.kappa[l] = params.kappa_min[l]

\* C3: no step() call of the v4 or v5 engine changes any field of the
\* ParameterSet; the leap amplification is applied to a rate local to the
\* call, so after any sequence of steps every parameter has the value it
\* was constructed with.
ParameterSetUnchanged == [][Layered => params' = params]_vars

\* after two steps of a v5 engine, the last of which used an amplified
\* conversion rate on some layer, the ParameterSet still holds the
\* configured rate
AmplifiedRateStayedLocal ==
    /\ last.called /\ ver = "v5" /\ nsteps = MaxSteps
    /\ params \in ParamPresetsV5
    /\ \E l \in Layers :
        /\ last.locals.gamma[l] > params.gamma2d[l]
        /\ state.conversion2d[l] > 0

\* the step ran the static Theta test: the v4 engine, or the v5 engine with
\* use_integrated_leap_detection=False
StaticMode ==
    ver = "v4" \/ (ver = "v5" /\ ~params.use_integrated_leap_detection)

\* C4 as stated: in static mode, in the state returned by step(), every
\* layer's critical flag equals (that state's energy[layer] < Theta_layer).
CriticalFlagMatchesReturnedEnergy ==
    last.called /\ StaticMode =>
        \A l \in LayersOf :
            state.is_critical[l] = (state.E[l] < params.Theta[l])

\* C4 as amended: in static mode, in the state returned by step(), every
\* layer's critical flag equals (phase transitions are enabled and the
\* energy[layer] the step started from < Theta_layer).
CriticalFlagMatchesEntryEnergy ==
    last.called /\ StaticMode =>
        \A l \in LayersOf :
            state.is_critical[l] =
                (params.enable_phase_transition
                 /\ last.pre.E[l] < params.Theta[l])

\* a static-mode step that started with a layer on or above its threshold
\* and returned it below: the flag is unset although the returned energy
\* is under Theta
FlagLagsReturnedEnergy ==
    /\ last.called /\ StaticMode /\ params.enable_phase_transition
    /\ \E l \in LayersOf :
        /\ last.pre.E[l] >= params.Theta[l]
        /\ state.E[l] < params.Theta[l]
        /\ ~state.is_critical[l]

\* what the interlayer transfers contributed to dE_<layer> in the last v5
\* step: the recorded flow less production, conversions, decay and the
\* social term
TransferShare(l) ==
    state.flow[l]
    - (last.locals.production[l] - state.conversion2d[l]
       + state.conversiond2[l] - last.locals.decay[l]
       + state.social_coupling[l])

\* C5: in every v5 step with interlayer transfer enabled, each of the eight
\* pair amounts is gamma_pair * energy[source] * transfer_strength, is added
\* to its destination layer's delta and subtracted from its source layer's
\* delta whatever its sign, and the transfer contributions to the four
\* layers' deltas sum to zero.
InterlayerTransfersBalance ==
    last.called /\ ver = "v5" /\ params.enable_interlayer_transfer =>
        /\ \A k \in TransferKeys :
            state.transfer[k] =
                FMul(FMul(params.gamma_pair[k], last.pre.E[TransferSource(k)]),
                     params.interlayer_transfer_strength)
        /\ \A l \in Layers :
            TransferShare(l) =
                SumOver(state.transfer,
                        {k \in TransferKeys : TransferDestination(k) = l})
                - SumOver(state.transfer,
                          {k \in TransferKeys : TransferSource(k) = l})
        /\ SumOver([l \in Layers |-> TransferShare(l)], Layers) = 0

\* a v5 step that moved energy along every pair, with amounts of both signs
TransfersOfBothSigns ==
    /\ last.called /\ ver = "v5" /\ params.enable_interlayer_transfer
    /\ \A k \in TransferKeys : state.transfer[k] # 0
    /\ state.transfer["upper2base"] < 0
    /\ state.transfer["base2core"] < 0
    /\ state.transfer["physical2base"] > 0
    /\ \E l \in Layers : TransferShare(l) < 0
    /\ \E l \in Layers : TransferShare(l) > 0

\* all conversion-to-direct, conversion-from-direct, decay and (v5)
\* interlayer-transfer coefficients are zero
CoefficientsAllZero ==
    /\ \A l \in LayersOf :
        params.gamma2d[l] = 0 /\ params.gammad2[l] = 0 /\ params.beta[l] = 0
    /\ ver = "v5" => \A k \in TransferKeys : params.gamma_pair[k] = 0

\* step() is passed no other agents
NoSocialCoupling == ~cast.given \/ Len(cast.others) = 0

\* C6: with all conversion, decay and interlayer-transfer coefficients zero,
\* no social coupling, and |pressure| = |reaction| on every layer, step()
\* leaves every layer's energy unchanged (v5 and v4).
LayerEnergiesConserved ==
    (/\ last.called /\ Layered
     /\ CoefficientsAllZero
     /\ NoSocialCoupling
     /\ \A l \in LayersOf : Norm(last.p[l]) = Norm(last.locals.j[l]))
    => \A l \in LayersOf : state.E[l] = last.pre.E[l]

\* a v5 step under those conditions with non-zero pressure on every layer,
\* dt > 0 and energy in the layers
ConservedUnderPressure ==
    /\ last.called /\ ver = "v5"
    /\ CoefficientsAllZero
    /\ NoSocialCoupling
    /\ last.dt > 0
    /\ \A l \in Layers :
        /\ last.p[l] # 0
        /\ Norm(last.p[l]) = Norm(last.locals.j[l])
        /\ last.pre.E[l] > 0
        /\ state.E[l] = last.pre.E[l]

\* the worked scenario: a static-mode engine with Theta_base = 150,
\* gamma_base2d = 0.08 and multiplier 15, an agent holding E_base = 120 and
\* nothing in the other pools, stepped alone with zero pressure and dt = 1
WorkedScenarioStep ==
    /\ last.called /\ StaticMode /\ NoSocialCoupling
    /\ params.enable_phase_transition
    /\ params.Theta["BASE"] = 15000
    /\ params.gamma2d["BASE"] = 8
    /\ params.phase_transition_multiplier["BASE"] = 1500
    /\ last.pre.E["BASE"] = 12000
    /\ \A x \in DOMAIN last.pre.E : x # "BASE" => last.pre.E[x] = 0
    /\ \A l \in LayersOf : last.p[l] = 0
    /\ last.dt = 100

\* C7: in the worked scenario (E_base = 120 < Theta_base = 150, gamma 0.08,
\* multiplier 15, zero pressure, dt = 1, static mode) the step records
\* conversion_base2d = 0.08 * 15 * 120 = 144 and returns E_base < 120.
WorkedScenarioConversion ==
    WorkedScenarioStep =>
        /\ state.conversion2d["BASE"] = 14400
        /\ state.E["BASE"] < 12000

\* the worked scenario run on the v5 engine: BASE flagged critical, 144
\* converted, and E_base drained
WorkedScenarioRun ==
    /\ WorkedScenarioStep /\ ver = "v5"
    /\ state.is_critical["BASE"]
    /\ state.conversion2d["BASE"] = 14400
    /\ state.E["BASE"] = 0

\* C8: per layer and per step (v5 and v4), reaction = inertia * pressure
\* with the inertia the step starts from, and production =
\* alpha * max(0, |pressure| - |reaction|); in particular the production of
\* a layer is zero whenever |reaction| >= |pressure| (inertia >= 1).
ProductionLaw ==
    last.called /\ Layered =>
        \A l \in LayersOf :
            /\ last.locals.j[l] = FMul(last.pre.kappa[l], last.p[l])
            /\ last.locals.production[l] =
                   FMul(params.alpha[l],
                        Max(0, Norm(last.p[l]) - Norm(last.locals.j[l])))
            /\ Norm(last.locals.j[l]) >= Norm(last.p[l])
                   => last.locals.production[l] = 0

\* the v5 step ran the integrated leap detection
IntegratedMode == ver = "v5" /\ params.use_integrated_leap_detection

\* the layers whose critical flag the last step set
Flagged == {l \in LayersOf : state.is_critical[l]}

\* C9: in integrated mode, whenever a layer is critical, the dominant layer
\* is a critical layer whose structural power |p| * E * kappa * R is
\* greatest among the critical layers, the earliest in the order PHYSICAL,
\* BASE, CORE, UPPER of those with that power; a layer that is not critical
\* is never dominant, whatever its power.
DominantIsFirstStrongestCritical ==
    last.called /\ IntegratedMode =>
        /\ \A l \in Layers :
            state.structural_powers[l] =
                FMul(FMul(Norm(last.p[l]), last.pre.E[l]), state.kappa[l])
                * R_values[l]
        /\ Flagged # {} =>
            /\ state.dominant_leap_layer \in Flagged
            /\ \A l \in Flagged :
                /\ state.structural_powers[l]
                      <= state.structural_powers[state.dominant_leap_layer]
                /\ state.structural_powers[l]
                      = state.structural_powers[state.dominant_leap_layer]
                   => LayerIndex(state.dominant_leap_layer) <= LayerIndex(l)

\* an integrated-mode step in which PHYSICAL and BASE are both critical
\* with the same non-zero power, the greatest, and PHYSICAL is dominant
\* while a layer that is not critical has power too
TieResolvedByOrder ==
    /\ last.called /\ IntegratedMode
    /\ {"PHYSICAL", "BASE"} \subseteq Flagged
    /\ state.structural_powers["PHYSICAL"] > 0
    /\ state.structural_powers["PHYSICAL"] = state.structural_powers["BASE"]
    /\ state.dominant_leap_layer = "PHYSICAL"
    /\ \E l \in Layers \ Flagged : state.structural_powers[l] > 0

\* dominant_layer and leap_type agree with the flags: NONE / NO_LEAP when no
\* flag is set, otherwise a flagged layer and LEAP_<that layer>
LabelsMatchFlags ==
    IF Flagged = {}
    THEN /\ state.dominant_leap_layer = "NONE"
         /\ state.leap_type = "NO_LEAP"
    ELSE /\ state.dominant_leap_layer \in Flagged
         /\ state.leap_type = "LEAP_" \o state.dominant_leap_layer

MaxPairs == 2

\* relationships passed by the callers: strongly and mildly competitive,
\* both edges of the neutral band, zero, mildly cooperative
RelationValues == {-100, -70, -50, 0, 50, 80}

SocialPairOptions ==
    {<<o, r>> : o \in {OtherLow, OtherHigh}, r \in RelationValues}

\* other_states / relationships lists of up to MaxPairs pairs
SocialCasts ==
    UNION {{CastOf(q) : q \in [1..n -> SocialPairOptions]} : n \in 0..MaxPairs}

\* a v5 engine with the default ParameterSet, about to step an agent
\* against a list of other agents
InitSocial ==
    /\ ver = "v5"
    /\ params = ParamsV5Default
    /\ state \in {StateV5(MixedEnergies, [l \in Layers |-> 95]),
                  StateV5(EnergiesV5(25000, 15000, 12000, 1000, 10000),
                          [l \in Layers |-> 100])}
    /\ engine = EngineV5Init
    /\ cast \in SocialCasts
    /\ last = NotCalled
    /\ nsteps = 0

\* the first call of step() on the agent
CallStepOnce == nsteps = 0 /\ CallStepV5

SpecSocial == InitSocial /\ [][CallStepOnce]_vars

\* the pairs of the caller's lists, as zip() yields them
CastPairs ==
    [i \in 1..Min(Len(cast.others), Len(cast.relationships)) |->
        <<cast.others[i], cast.relationships[i]>>]

InNeutralBand(r) ==
    /\ -params.cooperation_threshold <= r
    /\ r <= params.cooperation_threshold

\* the caller's lists with every pairing of the neutral band taken out
ActiveCast ==
    CastOf(SelectSeq(CastPairs, LAMBDA q : ~InNeutralBand(q[2])))

\* C11: a pairing whose relationship r satisfies
\* -cooperation_threshold <= r <= cooperation_threshold (r = 0 and both
\* boundary values included) contributes zero to every layer's energy delta
\* and inertia delta of the stepped agent, whatever the other agent's state:
\* the step returns the state it returns with every such pairing removed
\* from the lists, and when all pairings are such, the recorded coupling is
\* zero and the state is the one returned without any other agent.
NeutralBandContributesNothing ==
    last.called /\ ver = "v5" /\ cast.given =>
        /\ state = StepV5(params, engine, last.pre, last.p, last.F,
                          ActiveCast, last.dt).state
        /\ Len(ActiveCast.others) = 0 =>
            /\ state.social_coupling = ZeroLayers
            /\ state.kappa_coupling = ZeroLayers
            /\ last.locals.coupling_kappa = ZeroLayers
            /\ state = StepV5(params, engine, last.pre, last.p, last.F,
                              NoCast, last.dt).state

\* a step against two charged agents, one at r = -cooperation_threshold and
\* one at r = +cooperation_threshold, that moved the energies and recorded
\* no coupling
BothBandEdgesNeutral ==
    /\ last.called /\ ver = "v5" /\ cast.given
    /\ params.enable_social_coupling
    /\ cast.others = <<OtherHigh, OtherHigh>>
    /\ cast.relationships = <<-params.cooperation_threshold,
                              params.cooperation_threshold>>
    /\ state.E # last.pre.E
    /\ state.social_coupling = ZeroLayers
    /\ last.locals.coupling_kappa = ZeroLayers

\* the inertia of the stepped agent when the coupling of section 5.5 reads
\* it: after the learning and the decay of this step
SelfKappaAtCoupling(l) ==
    KappaLearnDecayV5(params, last.pre.kappa, last.p, last.dt)[l]

\* what the claim gives for pairing i on layer l: energy and inertia
PairEnergy(l, i) ==
    LET r == cast.relationships[i]
        other == cast.others[i]
    IN  IF r > params.cooperation_threshold
        THEN FMul(FMul(FMul(other.E[l] - last.pre.E[l], params.zeta[l]), r),
                  params.social_coupling_strength)
        ELSE IF r < -params.cooperation_threshold
        THEN FMul(FMul(FMul(params.omega[l], other.E[l]), Abs(r)),
                  params.social_coupling_strength)
        ELSE 0

PairKappa(l, i) ==
    LET r == cast.relationships[i]
        other == cast.others[i]
    IN  IF r > params.cooperation_threshold
        THEN FMul(FMul(FMul(other.kappa[l] - SelfKappaAtCoupling(l),
                            params.xi[l]), r),
                  params.social_coupling_strength)
        ELSE 0

PairSumEnergy(l) ==
    SumOver([i \in DOMAIN CastPairs |-> PairEnergy(l, i)], DOMAIN CastPairs)

PairSumKappa(l) ==
    SumOver([i \in DOMAIN CastPairs |-> PairKappa(l, i)], DOMAIN CastPairs)

\* what the social coupling contributed to dE_<layer> in the last v5 step:
\* the recorded flow less production, conversions, decay and transfers
SocialShare(l) ==
    state.flow[l]
    - (last.locals.production[l] - state.conversion2d[l]
       + state.conversiond2[l] - last.locals.decay[l]
       + TransferDelta(l, state.transfer))

\* C12: in a v5 step with social coupling, per layer, a cooperative pairing
\* (r > cooperation_threshold) contributes
\* zeta*(other.energy - self.energy)*r*strength to energy and
\* xi*(other.inertia - self.inertia)*r*strength to inertia, a competitive
\* pairing (r < -cooperation_threshold) contributes
\* omega*other.energy*|r|*strength to energy and nothing to inertia; the
\* contributions of all listed agents are summed, and the sum enters the
\* layer's energy delta once and the layer's inertia once.
SocialCouplingLaw ==
    last.called /\ ver = "v5" /\ cast.given /\ params.enable_social_coupling =>
        \A l \in Layers :
            /\ state.social_coupling[l] = PairSumEnergy(l)
            /\ SocialShare(l) = PairSumEnergy(l)
            /\ state.E[l] = Max(0, last.pre.E[l] + FMul(state.flow[l], last.dt))
            /\ last.locals.coupling_kappa[l] = PairSumKappa(l)
            /\ state.kappa[l] =
                  Max(params.kappa_min[l],
                      SelfKappaAtCoupling(l) + FMul(PairSumKappa(l), last.dt))

\* a step with dt = 1 against a drained agent at r = 0.8 and a charged agent
\* at r = -0.7 (omega is negative): both pairings contribute to the energy
\* delta of BASE, the first to its inertia
CooperationAndCompetitionSummed ==
    /\ last.called /\ ver = "v5" /\ cast.given /\ params.enable_social_coupling
    /\ cast.others = <<OtherLow, OtherHigh>>
    /\ cast.relationships = <<80, -70>>
    /\ last.dt = One
    /\ PairEnergy("BASE", 1) < 0
    /\ PairEnergy("BASE", 2) < 0
    /\ state.social_coupling["BASE"] = PairEnergy("BASE", 1) + PairEnergy("BASE", 2)
    /\ PairKappa("BASE", 1) # 0
    /\ last.locals.coupling_kappa["BASE"] = PairKappa("BASE", 1)
    /\ state.kappa["BASE"] # SelfKappaAtCoupling("BASE")

\* ======================================= several agents stepped in one tick
\* number of agents sharing one engine and one ParameterSet in the runs of
\* SpecTick
MaxAgents == 2

Agents == 1..MaxAgents

\* the initial state of each agent
TickStates ==
    {StateV5(MixedEnergies, [l \in Layers |-> 95]),
     StateV5(EnergiesV5(25000, 15000, 12000, 1000, 10000),
             [l \in Layers |-> 100])}

\* the relationship the agents hold towards one another: cooperative,
\* competitive
TickRelations == {80, -70}

\* the arguments agent a is stepped with in every tick
TickCall(a) ==
    CASE a = 1 -> [p |-> UniformPressure, F |-> <<100>>, dt |-> 100]
      [] a = 2 -> [p |-> BasePressure, F |-> <<>>, dt |-> 100]
      [] OTHER -> [p |-> ZeroLayers, F |-> <<>>, dt |-> 100]

\* the i-th agent other than a
OtherAt(a, i) == IF i < a THEN i ELSE i + 1

\* other_states / relationships passed when agent a is stepped: the
\* snapshots of all other agents taken at the start of the tick
OthersSeenBy(a) ==
    CastOf([i \in 1..(MaxAgents - 1) |->
               <<cast.snapshots[OtherAt(a, i)], cast.relation>>])

\* state maps each agent to its state object, cast holds the snapshots of
\* the tick and the relationship, last the order in which the agents were
\* stepped in the tick, nsteps the number of ticks begun after the first
InitTick ==
    /\ ver = "v5"
    /\ params \in {ParamsV5Default, ParamsV5Static}
    /\ state \in [Agents -> TickStates]
    /\ engine = EngineV5Init
    /\ \E r \in TickRelations : cast = [snapshots |-> state, relation |-> r]
    /\ last = [order |-> <<>>]
    /\ nsteps = 0

\* engine.step on agent a, not yet stepped in this tick, against the
\* snapshots
StepAgent(a) ==
    /\ \A i \in DOMAIN last.order : last.order[i] # a
    /\ \E r \in {StepV5(params, engine, state[a], TickCall(a).p,
                        TickCall(a).F, OthersSeenBy(a), TickCall(a).dt)} :
        /\ state' = [state EXCEPT ![a] = r.state]
        /\ engine' = r.engine
        /\ params' = r.params
    /\ last' = [order |-> Append(last.order, a)]
    /\ UNCHANGED <<ver, cast, nsteps>>

\* every agent has been stepped: the next tick begins with new snapshots
BeginTick ==
    /\ Len(last.order) = MaxAgents
    /\ nsteps + 1 < MaxSteps
    /\ cast' = [cast EXCEPT !.snapshots = state]
    /\ last' = [order |-> <<>>]
    /\ nsteps' = nsteps + 1
    /\ UNCHANGED <<ver, params, state, engine>>

NextTick == (\E a \in Agents : StepAgent(a)) \/ BeginTick

SpecTick == InitTick /\ [][NextTick]_vars

SteppedInTick == {last.order[i] : i \in DOMAIN last.order}

\* C13: when every agent of a tick is stepped against snapshots of the
\* other agents taken before any agent is mutated, on one shared engine and
\* one shared ParameterSet, then at every point of every interleaving each
\* stepped agent holds the state that step() yields from its own snapshot
\* and the others' snapshots (so the states at the end of the tick are the
\* same for every order), and each agent not yet stepped still holds its
\* snapshot (stepping one agent never modifies another).
TickOrderIndependent ==
    \A a \in Agents :
        state[a] =
            IF a \in SteppedInTick
            THEN StepV5(params, EngineV5Init, cast.snapshots[a],
                        TickCall(a).p, TickCall(a).F, OthersSeenBy(a),
                        TickCall(a).dt).state
            ELSE cast.snapshots[a]

\* a tick completed in the order 2, 1 on a shared engine that had already
\* run a tick: both agents were coupled to the other's snapshot and moved
\* away from their own, and agent 1 would have come out differently had it
\* read the state agent 2 held when agent 1 was stepped
TickSteppedInReverseOrder ==
    /\ last.order = <<2, 1>>
    /\ nsteps > 0
    /\ engine.time > 0
    /\ \A a \in {1, 2} :
        /\ state[a].social_coupling # ZeroLayers
        /\ state[a].E # cast.snapshots[a].E
    /\ state[1] # StepV5(params, engine, cast.snapshots[1], TickCall(1).p,
                         TickCall(1).F,
                         CastOf([i \in 1..(MaxAgents - 1) |->
                                    <<state[OtherAt(1, i)], cast.relation>>]),
                         TickCall(1).dt).state

\* =================================================== stochastic leap draws
\* np.exp and the hazard arithmetic in fixed point: exponent arguments and
\* hazard rates in units of 1e-4, probabilities and uniform draws in units
\* of 1e-6
Q == 10000
Micro == 1000000

\* e^n for n = 0..7, in thousandths
EPow1000(n) ==
    CASE n = 0 -> 1000 [] n = 1 -> 2718 [] n = 2 -> 7389 [] n = 3 -> 20086
      [] n = 4 -> 54598 [] n = 5 -> 148413 [] n = 6 -> 403429
      [] n = 7 -> 1096633

\* exp(f) for 0 <= f < 1: the series to the seventh power, by Horner's rule
ExpFrac(f) ==
    LET t7 == Q + f \div 7
        t6 == Q + (f * t7) \div (6 * Q)
        t5 == Q + (f * t6) \div (5 * Q)
        t4 == Q + (f * t5) \div (4 * Q)
        t3 == Q + (f * t4) \div (3 * Q)
        t2 == Q + (f * t3) \div (2 * Q)
    IN  Q + (f * t2) \div Q

\* np.exp(x) for 0 <= x <= 7
ExpPos(x) == (EPow1000(x \div Q) * (ExpFrac(x % Q) \div 10)) \div 100

\* np.exp(x) for -7 <= x <= 7
Exp(x) ==
    IF x >= 0 THEN ExpPos(x)
    ELSE (2 * Q * Q + ExpPos(-x)) \div (2 * ExpPos(-x))

RECURSIVE ExpSeries(_, _, _, _)
\* y - y^2/2! + y^3/3! - ... from the k-th term t on, y and the sum in 1e-6
ExpSeries(y, k, t, acc) ==
    IF t = 0 \/ k > 12 THEN acc
    ELSE ExpSeries(y, k + 1, (t * (y \div 1000)) \div (1000 * (k + 1)),
                   IF k % 2 = 1 THEN acc + t ELSE acc - t)

\* 1.0 - np.exp(-y) for 0 <= y <= 1.2
OneMinusExpNeg(y) == ExpSeries(y, 1, y, 0)

\* ------------------------------------------------- the werewolf game (v3)
\* the roles that do not need a seer's knowledge
Roles == {"WEREWOLF", "VILLAGER"}

\* the SSDParametersV3_5 that _initialize_players gives a role
RoleParams(role) ==
    IF role = "WEREWOLF"
    THEN [ParamsV35Default EXCEPT
            !.use_direct_action = TRUE, !.use_indirect_action = TRUE,
            !.gamma_i2d = 12, !.gamma_d2i = 5, !.Theta_critical = 30000,
            !.enable_phase_transition = TRUE,
            !.phase_transition_multiplier = 1500]
    ELSE [ParamsV35Default EXCEPT
            !.use_direct_action = TRUE, !.use_indirect_action = TRUE,
            !.gamma_i2d = 6, !.gamma_d2i = 6, !.Theta_critical = 35000,
            !.enable_phase_transition = TRUE,
            !.phase_transition_multiplier = 1200]

\* WerewolfPlayerV3 as _initialize_players constructs player i of n
PlayerInit(i, role) == [
    role |-> role,
    state |-> IF role = "WEREWOLF" THEN StateV35(120, 10000, 14000)
              ELSE StateV35(100, 7000, 12000),
    is_alive |-> TRUE,
    suspicion_level |-> 0,
    social_suspicion |-> 0,
    trust_map |-> [j \in Agents \ {i} |-> 50],
    phase_transition_count |-> 0]

\* the generator left to the entropy of the process: its state differs from
\* run to run
SeedFromProcess(run, seed) == (seed + 7919 * run) % 65536

\* np.random.seed(seed) in run number run: the generator state depends on
\* the seed alone
SeedGenerator(run, seed) == seed % 65536

\* the generator advanced by one draw
NextRandom(rng) == (25173 * rng + 13849) % 65536

\* the uniform value in [0, 1) the generator state yields, in 1e-6
Uniform(rng) == (rng * 15625) \div 1024

\* the game object: the process-wide generator, the day, the recorded
\* leap events and the per-update history rows
GameInit(run, seed) == [
    rng |-> SeedGenerator(run, seed),
    current_day |-> 1,
    phase_transition_events |-> <<>>,
    history |-> <<>>]

\* the hazard and the probability of check_probabilistic_jump:
\* h0 = 0.01, gamma = 50.0, dt = 0.1
JumpProbability(E_indirect, Theta_critical) ==
    LET h0 == 100
        gamma == 5000
        h == IF E_indirect < Theta_critical
             THEN (h0 * Exp(((Theta_critical - E_indirect) * Q) \div gamma))
                  \div Q
             ELSE h0
        dt == 10
    IN  OneMinusExpNeg(h * dt)

\* max(player.trust_map, key=player.trust_map.get): the first key, in
\* insertion order, holding the greatest value
MostTrusted(trust_map) ==
    CHOOSE j \in DOMAIN trust_map :
        \A k \in DOMAIN trust_map :
            trust_map[j] > trust_map[k]
            \/ (trust_map[j] = trust_map[k] /\ j <= k)

\* handle_phase_transition(player, spontaneous); yields the players and
\* the game
HandlePhaseTransition(players, game, i, spontaneous) ==
    LET recorded == [game EXCEPT !.phase_transition_events =
                        Append(@, [day |-> game.current_day, id |-> i,
                                   role |-> players[i].role,
                                   spontaneous |-> spontaneous])]
        me == players[i]
    IN  IF me.role = "VILLAGER"
        THEN IF DOMAIN me.trust_map # {}
                /\ players[MostTrusted(me.trust_map)].is_alive
             THEN LET t == MostTrusted(me.trust_map)
                  IN [players |-> [players EXCEPT
                          ![i].trust_map[t] = 0,
                          ![t].suspicion_level = @ + 300,
                          ![t].social_suspicion = @ + 200],
                      game |-> recorded]
             ELSE [players |-> players, game |-> recorded]
        ELSE [players |-> [players EXCEPT
                  ![i].state.E_direct = FMul(@, 150)],
              game |-> recorded]

\* the flag handed over at the call: no argument, so the default False
SpontaneousDefaulted(E_indirect, Theta_critical) == FALSE

\* spontaneous=(player.state.E_indirect >= Theta_critical)
SpontaneousAtDraw(E_indirect, Theta_critical) ==
    E_indirect >= Theta_critical

\* check_probabilistic_jump(player, p_external)
CheckProbabilisticJump(players, game, i, Theta_critical) ==
    LET E_indirect == players[i].state.E_indirect
        jump_probability == JumpProbability(E_indirect, Theta_critical)
        rng == NextRandom(game.rng)
        drawn == [game EXCEPT !.rng = rng]
    IN  IF Uniform(rng) < jump_probability
        THEN HandlePhaseTransition(
                [players EXCEPT ![i].phase_transition_count = @ + 1],
                drawn, i, SpontaneousAtDraw(E_indirect, Theta_critical))
        ELSE [players |-> players, game |-> drawn]

\* the external pressure the pressure system yields for player i: none;
\* a surge on the first player; a surge on every player
PressureSchedules == {"calm", "surge", "storm"}

PressureOf(schedule, i) ==
    IF schedule = "storm" \/ (schedule = "surge" /\ i = 1)
    THEN 400000 ELSE 0

\* seeds given to np.random.seed
Seeds == {42, 88, 416, 35846}

Runs == {1, 2}

\* two runs of the game from the same roles, pressure schedule and seed.
\* Per run: params, state and engine map each player to its ParameterSet,
\* player object and engine; last is the game object; nsteps counts the
\* players updated in the day's loop
InitLeap ==
    /\ ver = "werewolf_v3"
    /\ \E roles \in [Agents -> Roles], schedule \in PressureSchedules,
          seed \in Seeds :
        /\ cast = [roles |-> roles, schedule |-> schedule, seed |-> seed]
        /\ params = [r \in Runs |-> [i \in Agents |-> RoleParams(roles[i])]]
        /\ state = [r \in Runs |-> [i \in Agents |-> PlayerInit(i, roles[i])]]
        /\ engine = [r \in Runs |->
                        [i \in Agents |-> EngineV35Init(RoleParams(roles[i]))]]
        /\ last = [r \in Runs |-> GameInit(r, seed)]
    /\ nsteps = [r \in Runs |-> 0]

\* update_player_energy(player) for the next player of the loop of
\* day_phase in run r: engine.step with dt = 0.1, the leap draw, the
\* history rows
UpdatePlayerEnergy(r) ==
    /\ nsteps[r] < MaxAgents
    /\ LET i == nsteps[r] + 1
           p_external == PressureOf(cast.schedule, i)
       IN \E s \in {StepV35(params[r][i], engine[r][i], state[r][i].state,
                            p_external, 10, <<>>)} :
          \E c \in {CheckProbabilisticJump(
                        [state[r] EXCEPT ![i].state = s.state], last[r], i,
                        s.params.Theta_critical)} :
            /\ state' = [state EXCEPT ![r] = c.players]
            /\ params' = [params EXCEPT ![r][i] = s.params]
            /\ engine' = [engine EXCEPT ![r][i] = s.engine]
            /\ last' = [last EXCEPT ![r] = [c.game EXCEPT !.history =
                          Append(@, [id |-> i,
                                     kappa |-> c.players[i].state.kappa,
                                     direct |-> c.players[i].state.E_direct,
                                     indirect |-> c.players[i].state.E_indirect,
                                     pressure |-> p_external])]]
    /\ nsteps' = [nsteps EXCEPT ![r] = @ + 1]
    /\ UNCHANGED <<ver, cast>>

NextLeap == \E r \in Runs : UpdatePlayerEnergy(r)

SpecLeap == InitLeap /\ [][NextLeap]_vars

\* the leap events of run r drawn by the first n players updated
EventsUpTo(r, n) ==
    SelectSeq(last[r].phase_transition_events, LAMBDA e : e.id <= n)

LeapFlagMatchesEnergyAtDraw ==
    \A r \in Runs :
        /\ \A k \in DOMAIN last[r].phase_transition_events :
            LET e == last[r].phase_transition_events[k]
            IN  /\ e.id \in DOMAIN last[r].history
                /\ e.spontaneous =
                      (last[r].history[e.id].indirect
                          >= params[r][e.id].Theta_critical)
        /\ \A i \in Agents :
            state[r][i].phase_transition_count =
                Cardinality({k \in DOMAIN last[r].phase_transition_events :
                                last[r].phase_transition_events[k].id = i})

\* a run in which one player leapt on or above its threshold and was
\* recorded as spontaneous, and another leapt below its threshold and was
\* recorded as induced
BothKindsOfLeapRecorded ==
    \E j, k \in DOMAIN last[1].phase_transition_events :
        LET a == last[1].phase_transition_events[j]
            b == last[1].phase_transition_events[k]
        IN  /\ a.spontaneous /\ ~b.spontaneous
            /\ last[1].history[a.id].indirect >= params[1][a.id].Theta_critical
            /\ last[1].history[b.id].indirect < params[1][b.id].Theta_critical
            /\ state[1][a.id].phase_transition_count = 1
            /\ state[1][b.id].phase_transition_count = 1

\* ------------------------------- the Agent of the symmetric/asymmetric demo
\* Agent(kappa=0.5, R=0.1, Theta=50.0, G0=0.3, g=0.2), the balloon of
\* run_physical_trial, with the defaults of the other fields
Balloon == [kappa |-> 50, R |-> 10, Theta |-> 5000, G0 |-> 30, g |-> 20,
            alpha |-> 50, beta |-> 10, h0 |-> 1, gamma |-> 1000]

\* the mutable fields of an Agent holding energy E
AgentInit(E) == [E |-> E, E_history |-> <<>>, j_history |-> <<>>,
                 p_history |-> <<>>, jump_prob_history |-> <<>>,
                 jumped |-> FALSE, jump_time |-> -1]

\* Agent.calculate_coherence_flow: j = (G0 + g * kappa) * p / (1 + R)
CalculateCoherenceFlow(a, p) ==
    FDiv(FMul(a.G0 + FMul(a.g, a.kappa), p), One + a.R)

\* Agent.update_energy(p, dt)
UpdateEnergyOf(a, s, p, dt) ==
    LET j == CalculateCoherenceFlow(a, p)
        unprocessed == Max(0, Abs(p) - Abs(j))
        dE == FMul(a.alpha, unprocessed) - FMul(a.beta, s.E)
        E == Max(0, s.E + FMul(dE, dt))
    IN  [s EXCEPT !.E = E,
                  !.E_history = Append(@, E),
                  !.j_history = Append(@, j),
                  !.p_history = Append(@, p)]

\* the value Agent.calculate_jump_probability(dt) returns:
\* h = h0 * exp((E - Theta) / gamma), P_jump = 1 - exp(-h * dt)
CalculateJumpProbability(a, E, dt) ==
    LET h == (a.h0 * 100 * Exp(((E - a.Theta) * Q) \div a.gamma)) \div Q
    IN  OneMinusExpNeg(h * dt)

\* Agent.attempt_jump(dt, t) on generator state rng; yields the agent and
\* the generator
AttemptJumpOf(a, s, rng, dt, t) ==
    IF s.jumped THEN [agent |-> s, rng |-> rng]
    ELSE LET P_jump == CalculateJumpProbability(a, s.E, dt)
             recorded == [s EXCEPT !.jump_prob_history = Append(@, P_jump)]
             drawn == NextRandom(rng)
         IN  IF Uniform(drawn) < P_jump
             THEN [agent |-> [recorded EXCEPT !.jumped = TRUE,
                                              !.jump_time = t],
                   rng |-> drawn]
             ELSE [agent |-> recorded, rng |-> drawn]

\* energies the balloon holds when the trial is observed
TrialEnergies == {3000, 4000, 4500, 4800}

\* a trial on the balloon: params holds the Agent's constants, state its
\* mutable fields, engine the generator and the time t, cast the force F
\* and the dt of the trial, last the position in the loop body, nsteps the
\* number of iterations completed
InitHazard ==
    /\ ver = "demo"
    /\ params = Balloon
    /\ state \in {AgentInit(E) : E \in TrialEnergies}
    /\ \E seed \in Seeds : engine = [rng |-> SeedGenerator(1, seed), t |-> 0]
    /\ \E dt \in DtValues : cast = [F |-> 3000, dt |-> dt]
    /\ last = [pc |-> "update_energy"]
    /\ nsteps = 0

\* balloon.update_energy(p_balloon, dt) in the loop of run_physical_trial
UpdateEnergy ==
    /\ last.pc = "update_energy"
    /\ nsteps < MaxSteps
    /\ state' = UpdateEnergyOf(params, state, cast.F, cast.dt)
    /\ last' = [pc |-> "attempt_jump"]
    /\ UNCHANGED <<ver, params, engine, cast, nsteps>>

\* balloon.attempt_jump(dt, t), then t += dt
AttemptJump ==
    /\ last.pc = "attempt_jump"
    /\ \E r \in {AttemptJumpOf(params, state, engine.rng, cast.dt, engine.t)} :
        /\ state' = r.agent
        /\ engine' = [rng |-> r.rng, t |-> engine.t + cast.dt]
    /\ last' = [pc |-> "update_energy"]
    /\ nsteps' = nsteps + 1
    /\ UNCHANGED <<ver, params, cast>>

NextHazard == UpdateEnergy \/ AttemptJump

SpecHazard == InitHazard /\ [][NextHazard]_vars

\* the probability at the baseline hazard h0: 1 - exp(-h0 * dt)
BaselineProbability == OneMinusExpNeg(params.h0 * 100 * cast.dt)

\* C16 as stated: every leap probability P = 1 - exp(-h*dt) the agent
\* computes is strictly positive, is the baseline (hazard h0) when the
\* energy is >= Theta and strictly greater than that when the energy is
\* below Theta, and never increases as the energy increases.
JumpProbabilityNeverRisesWithEnergy ==
    \A k \in DOMAIN state.jump_prob_history :
        LET P == state.jump_prob_history[k]
            E == state.E_history[k]
        IN  /\ P > 0
            /\ E >= params.Theta => P = BaselineProbability
            /\ E < params.Theta => P > BaselineProbability
            /\ \A j \in DOMAIN state.jump_prob_history :
                state.E_history[j] < E => state.jump_prob_history[j] >= P

\* ============================================ configurations as constructed
\* SSDParametersV5(beta_base=-0.01, ...): every decay coefficient negative
ParamsV5NegativeDecay == [ParamsV5Default EXCEPT !.beta = [l \in Layers |-> -1]]

\* SSDParametersV4 with every decay coefficient negative
ParamsV4NegativeDecay == [ParamsV4Default EXCEPT !.beta = [l \in Layers4 |-> -1]]

\* dt as passed by a caller: 1.0 and -1.0
AnyDtValues == {100, -100}

\* SSDCoreEngineV5(params) for any SSDParametersV5, SSDCoreEngineV4(params)
\* for any SSDParametersV4: __init__ stores the ParameterSet as given
InitConfig ==
    /\ \/ /\ ver = "v5"
          /\ params \in {ParamsV5Default, ParamsV5NegativeDecay}
          /\ state \in InitStatesV5
          /\ engine = EngineV5Init
       \/ /\ ver = "v4"
          /\ params \in {ParamsV4Default, ParamsV4NegativeDecay}
          /\ state \in InitStatesV4
          /\ engine = EngineV4Init(params)
    /\ cast = NoCast
    /\ last = NotCalled
    /\ nsteps = 0

\* engine.step(state, ..., dt=dt) on the v5 engine, dt of either sign
StepAnyDtV5 ==
    /\ ver = "v5"
    /\ nsteps < MaxSteps
    /\ \E p \in {UniformPressure, BasePressure}, dt \in AnyDtValues :
        \E r \in {StepV5(params, engine, state, p, <<>>, cast, dt)} :
            /\ state' = r.state
            /\ engine' = r.engine
            /\ params' = r.params
            /\ last' = [called |-> TRUE, pre |-> state, engine_pre |-> engine,
                        p |-> p, F |-> <<>>, dt |-> dt, locals |-> r.locals]
    /\ nsteps' = nsteps + 1
    /\ UNCHANGED <<ver, cast>>

\* engine.step(state, ..., dt) on the v4 engine, dt of either sign
StepAnyDtV4 ==
    /\ ver = "v4"
    /\ nsteps < MaxSteps
    /\ \E p \in {[l \in Layers4 |-> 100],
                 [l \in Layers4 |-> IF l = "BASE" THEN -200 ELSE 0]},
          dt \in AnyDtValues :
        \E r \in {StepV4(params, engine, state, p, dt, <<>>)} :
            /\ state' = r.state
            /\ engine' = r.engine
            /\ params' = r.params
            /\ last' = [called |-> TRUE, pre |-> state, engine_pre |-> engine,
                        p |-> p, F |-> <<>>, dt |-> dt, locals |-> r.locals]
    /\ nsteps' = nsteps + 1
    /\ UNCHANGED <<ver, cast>>

NextConfig == StepAnyDtV5 \/ StepAnyDtV4

SpecConfig == InitConfig /\ [][NextConfig]_vars

\* the configuration or the call is malformed: a negative coefficient, or
\* a negative dt
Malformed ==
    \/ last.dt < 0
    \/ \E l \in DOMAIN params.beta : params.beta[l] < 0

\* C17 as stated: malformed configuration (a negative coefficient, a
\* negative dt) is rejected before any dynamics run: no step() integrates
\* with a negative dt, and a call made with a malformed configuration
\* leaves the agent state and the engine unchanged.
MalformedConfigurationRejected ==
    last.called /\ Malformed =>
        /\ state = last.pre
        /\ engine = last.engine_pre

\* ====================================== MultiDimensionalPressure (v2)
\* class SSDLayer(Enum)
SSDLayer == {"PHYSICAL", "BASE", "CORE", "UPPER"}

\* names under which dimensions are registered
DimensionNames == {"fear", "rank"}

\* calculators passed to register_dimension:
\*   "danger": lambda ctx: ctx["danger"]   (KeyError when the key is absent)
\*   "fixed":  lambda ctx: 0.8
\*   "broken": lambda ctx: 1.0 / 0.0       (always raises)
Calculators == {"danger", "fixed", "broken"}

\* contexts handed to calculate(): {}, {"danger": 0.6}, {"danger": -0.5}
Contexts == {[has_danger |-> FALSE, danger |-> 0],
             [has_danger |-> TRUE, danger |-> 60],
             [has_danger |-> TRUE, danger |-> -50]}

\* weights given to register_dimension / set_weight
Weights == {100, 300, -100}

\* a name with no entry in self.dimensions
Unregistered == [registered |-> FALSE]

\* MultiDimensionalPressure.__init__
PressureInit ==
    [layer_pressure_history |-> [l \in SSDLayer |-> <<>>],
     total_pressure_history |-> <<>>]

\* dim.calculator(context): the value returned, or raised
Calculator(kind, context) ==
    CASE kind = "danger" ->
            IF context.has_danger
            THEN [raised |-> FALSE, value |-> context.danger]
            ELSE [raised |-> TRUE, value |-> 0]
      [] kind = "fixed" -> [raised |-> FALSE, value |-> 80]
      [] OTHER -> [raised |-> TRUE, value |-> 0]

\* a loop body that counts a raising calculator as a pressure of zero
ContributionCountsRaised(dim, context) ==
    IF ~dim.registered \/ ~dim.enabled
    THEN [p |-> 0, w |-> 0, appended |-> FALSE]
    ELSE LET c == Calculator(dim.calculator, context) IN
         [p |-> dim.weight * c.value, w |-> dim.weight,
          appended |-> TRUE, value |-> c.value]

\* the body of the loop over self.dimensions for one dimension: what it
\* adds to layer_pressures[dim.layer] and to layer_weights[dim.layer]
Contribution(dim, context) ==
    IF ~dim.registered \/ ~dim.enabled
    THEN [p |-> 0, w |-> 0, appended |-> FALSE]
    ELSE LET c == Calculator(dim.calculator, context) IN
         IF c.raised
         THEN [p |-> 0, w |-> 0, appended |-> FALSE]
         ELSE [p |-> dim.weight * c.value, w |-> dim.weight,
               appended |-> TRUE, value |-> c.value]

\* layer_pressures[layer] / total_w, with the sum kept in 1e-4
WeightedAverage(sum_p, total_w) ==
    IF total_w > 0 THEN (2 * sum_p + total_w) \div (2 * total_w) ELSE 0

\* MultiDimensionalPressure.calculate(context)
Calculate(dimensions, history, context) ==
    LET on(l) == {n \in DOMAIN dimensions :
                    dimensions[n].registered /\ dimensions[n].layer = l}
        layer_pressures == [l \in SSDLayer |->
            SumOver([n \in on(l) |-> Contribution(dimensions[n], context).p], on(l))]
        layer_weights == [l \in SSDLayer |->
            SumOver([n \in on(l) |-> Contribution(dimensions[n], context).w], on(l))]
        final_pressures == [l \in SSDLayer |->
            WeightedAverage(layer_pressures[l], layer_weights[l])]
        total_pressure_all == SumOver(final_pressures, SSDLayer)
    IN [dimensions |-> [n \in DOMAIN dimensions |->
            LET c == Contribution(dimensions[n], context) IN
            IF c.appended
            THEN [dimensions[n] EXCEPT !.history = Append(@, c.value)]
            ELSE dimensions[n]],
        history |->
            [layer_pressure_history |-> [l \in SSDLayer |->
                Append(history.layer_pressure_history[l], final_pressures[l])],
             total_pressure_history |->
                Append(history.total_pressure_history, total_pressure_all)],
        final_pressures |-> final_pressures]

\* pressures.get(layer, 0.0) in the werewolf game's update
PressureGet(pressures, layer) ==
    IF layer \in DOMAIN pressures THEN pressures[layer] ELSE 0

InitPressure ==
    /\ ver = "pressure_v2"
    /\ params = <<>>
    /\ state = [n \in DimensionNames |-> Unregistered]
    /\ engine = PressureInit
    /\ cast = NoCast
    /\ last = NotCalled
    /\ nsteps = 0

\* register_dimension(name, calculator, layer, weight); the dimensions are
\* set up before the first calculate(), as the games do in their __init__
RegisterDimension ==
    /\ nsteps = 0
    /\ \E n \in DimensionNames, k \in Calculators,
          l \in SSDLayer \ {"PHYSICAL"}, w \in Weights \ {-100} :
        state' = [state EXCEPT ![n] =
            [registered |-> TRUE, weight |-> w, calculator |-> k,
             layer |-> l, enabled |-> TRUE, history |-> <<>>]]
    /\ UNCHANGED <<ver, params, engine, cast, last, nsteps>>

\* remove_dimension(name)
RemoveDimension ==
    /\ nsteps = 0
    /\ \E n \in DimensionNames :
        state' = [state EXCEPT ![n] =
            IF @.registered THEN Unregistered ELSE @]
    /\ UNCHANGED <<ver, params, engine, cast, last, nsteps>>

\* set_weight(name, weight)
SetWeight ==
    /\ nsteps = 0
    /\ \E n \in DimensionNames, w \in Weights :
        state' = [state EXCEPT ![n] =
            IF @.registered THEN [@ EXCEPT !.weight = w] ELSE @]
    /\ UNCHANGED <<ver, params, engine, cast, last, nsteps>>

\* enable_dimension(name, enabled)
EnableDimension ==
    /\ nsteps = 0
    /\ \E n \in DimensionNames, e \in BOOLEAN :
        state' = [state EXCEPT ![n] =
            IF @.registered THEN [@ EXCEPT !.enabled = e] ELSE @]
    /\ UNCHANGED <<ver, params, engine, cast, last, nsteps>>

\* pressures = pressure_system.calculate(context), then the game's
\* pressures.get(layer, 0.0) for the three layers of the v4 engine
CallCalculate ==
    /\ nsteps < MaxSteps
    /\ \E context \in Contexts :
        \E r \in {Calculate(state, engine, context)} :
            /\ state' = r.dimensions
            /\ engine' = r.history
            /\ last' = [called |-> TRUE, pre |-> state, context |-> context,
                        final_pressures |-> r.final_pressures,
                        p |-> [l \in Layers4 |-> PressureGet(r.final_pressures, l)]]
    /\ nsteps' = nsteps + 1
    /\ UNCHANGED <<ver, params, cast>>

NextPressure ==
    \/ RegisterDimension
    \/ RemoveDimension
    \/ SetWeight
    \/ EnableDimension
    \/ CallCalculate

SpecPressure == InitPressure /\ [][NextPressure]_vars

\* the dimensions whose calculator raised in the last calculate()
Raisers ==
    {n \in DimensionNames :
        /\ last.pre[n].registered
        /\ last.pre[n].enabled
        /\ Calculator(last.pre[n].calculator, last.context).raised}

\* the dimensions registered on layer l, enabled, and evaluated without
\* an exception in the last calculate()
EvaluatedOn(l) ==
    {n \in DimensionNames :
        /\ last.pre[n].registered
        /\ last.pre[n].enabled
        /\ last.pre[n].layer = l
        /\ ~Calculator(last.pre[n].calculator, last.context).raised}

\* the dimensions of the last calculate() with the raising ones removed
WithoutRaisers ==
    [n \in DimensionNames |->
        IF n \in Raisers THEN Unregistered ELSE last.pre[n]]

\* C18: calculate returns an entry for every layer of the fixed layer
\* set; a layer whose registered, enabled, successfully evaluated
\* dimensions have a total weight not > 0 gets pressure 0; a calculator
\* that raises is skipped: the call completes (its result is recorded in
\* the histories) and every layer's result is what it would be had the
\* raising dimensions not been registered.
MissingPressureIsZero ==
    last.called =>
        /\ DOMAIN last.final_pressures = SSDLayer
        /\ \A l \in SSDLayer :
            SumOver([n \in EvaluatedOn(l) |-> last.pre[n].weight],
                    EvaluatedOn(l)) <= 0
                => /\ last.final_pressures[l] = 0
                   /\ PressureGet(last.final_pressures, l) = 0
        /\ last.final_pressures =
            Calculate(WithoutRaisers, PressureInit, last.context).final_pressures
        /\ Len(engine.total_pressure_history) = nsteps
        /\ \A l \in SSDLayer :
            /\ Len(engine.layer_pressure_history[l]) = nsteps
            /\ engine.layer_pressure_history[l][nsteps] = last.final_pressures[l]

\* a calculate() in which one calculator raised and its layer got 0, a
\* dimension of another layer was evaluated to a nonzero pressure, and a
\* layer without dimensions got 0
RaiserSkippedBesideEvaluated ==
    /\ last.called
    /\ \E n \in Raisers :
        /\ last.final_pressures[last.pre[n].layer] = 0
        /\ \E l \in SSDLayer \ {last.pre[n].layer} :
            /\ EvaluatedOn(l) # {}
            /\ last.final_pressures[l] # 0
    /\ last.final_pressures["PHYSICAL"] = 0

\* ================================== two states differing in diagnostics
\* the fields of SSDStateV5 the step records for diagnosis
DiagnosticFields == {"flow", "conversion2d", "conversiond2", "transfer",
                     "social_coupling", "kappa_coupling", "is_critical",
                     "dominant_leap_layer", "leap_type"}

\* the state s with its recorded fields replaced by leftovers of some
\* earlier use: every flag set and every amount nonzero, or a leap of the
\* BASE layer alone with negative amounts
WithDiagnostics(s, leftover) ==
    IF leftover = "all_critical"
    THEN [s EXCEPT
            !.flow = [x \in Pools |-> 777],
            !.conversion2d = [l \in Layers |-> 555],
            !.conversiond2 = [l \in Layers |-> 333],
            !.transfer = [k \in TransferKeys |-> 111],
            !.social_coupling = [l \in Layers |-> 99],
            !.kappa_coupling = [l \in Layers |-> 88],
            !.is_critical = [l \in Layers |-> TRUE],
            !.dominant_leap_layer = "UPPER",
            !.leap_type = "LEAP_UPPER",
            !.structural_powers = [l \in Layers |-> 4000000],
            !.p = [l \in Layers |-> 500],
            !.j = [l \in Layers |-> 400],
            !.j_direct = 300,
            !.F_direct = 200]
    ELSE [s EXCEPT
            !.flow = [x \in Pools |-> -777],
            !.conversion2d = [l \in Layers |-> -555],
            !.conversiond2 = [l \in Layers |-> -333],
            !.transfer = [k \in TransferKeys |-> -111],
            !.social_coupling = [l \in Layers |-> -99],
            !.kappa_coupling = [l \in Layers |-> -88],
            !.is_critical = [l \in Layers |-> l = "BASE"],
            !.dominant_leap_layer = "BASE",
            !.leap_type = "LEAP_BASE"]

Leftovers == {"all_critical", "base_leap"}

\* one engine configuration, and two states with the same energies and
\* inertias: a freshly constructed one and one carrying leftovers
InitDiagnostics ==
    /\ ver = "v5"
    /\ params \in {ParamsV5Default, ParamsV5Static}
    /\ \E s \in InitStatesV5, leftover \in Leftovers :
        state = [fresh |-> s, used |-> WithDiagnostics(s, leftover)]
    /\ engine = [fresh |-> EngineV5Init, used |-> EngineV5Init]
    /\ cast = NoCast
    /\ last = NotCalled
    /\ nsteps = 0

\* engine.step(state, p, F_direct, dt, other_states, relationships) on each
\* of the two states, with the same inputs and the same ParameterSet
StepBoth ==
    /\ nsteps < MaxSteps
    /\ \E p \in {UniformPressure, BasePressure},
          F \in {<<>>, <<100>>},
          soc \in {NoCast, CastOf(<<<<OtherHigh, -100>>>>)} :
        LET a == StepV5(params, engine.fresh, state.fresh, p, F, soc, One)
            b == StepV5(params, engine.used, state.used, p, F, soc, One)
        IN  /\ state' = [fresh |-> a.state, used |-> b.state]
            /\ engine' = [fresh |-> a.engine, used |-> b.engine]
            /\ params' = a.params
            /\ last' = [called |-> TRUE, pre |-> state, p |-> p, F |-> F,
                        soc |-> soc, dt |-> One]
    /\ nsteps' = nsteps + 1
    /\ UNCHANGED <<ver, cast>>

SpecDiagnostics == InitDiagnostics /\ [][StepBoth]_vars

\* C19: two states with equal energies and inertias but different
\* diagnostic values (flows, conversions, transfers, coupling diagnostics,
\* critical flags, dominant layer, leap type) have, after one step() with
\* the same inputs, equal energies, inertias and diagnostics.
DiagnosticsNeverReadBack ==
    last.called =>
        /\ state.fresh.E = state.used.E
        /\ state.fresh.kappa = state.used.kappa
        /\ \A f \in DiagnosticFields : state.fresh[f] = state.used[f]
        /\ engine.fresh = engine.used

\* the first step of a pair whose every diagnostic field differed on
\* entry, in which a leap was detected and energy was converted
LeapSteppedFromDifferentDiagnostics ==
    /\ last.called
    /\ nsteps = 1
    /\ last.pre.fresh.E = last.pre.used.E
    /\ last.pre.fresh.kappa = last.pre.used.kappa
    /\ \A f \in DiagnosticFields : last.pre.fresh[f] # last.pre.used[f]
    /\ state.used.leap_type # "NO_LEAP"
    /\ state.used.leap_type # last.pre.used.leap_type
    /\ \E l \in Layers : state.used.conversion2d[l] > 0
    /\ last.soc.given

\* ============================================ rates of a step with a leap
\* every layer just above its threshold: no layer is critical at first
ChargedEnergies == EnergiesV5(25000, 15100, 12000, 8100, 0)

\* a v5 engine in integrated mode, and an agent that is charged, mixed, or
\* charged in three layers
InitRates ==
    /\ ver = "v5"
    /\ params = ParamsV5Default
    /\ state \in {StateV5(ChargedEnergies, [l \in Layers |-> 100]),
                  StateV5(MixedEnergies, [l \in Layers |-> 95]),
                  StateV5(EnergiesV5(25000, 15000, 12000, 1000, 10000),
                          [l \in Layers |-> 100])}
    /\ engine = EngineV5Init
    /\ cast \in Casts
    /\ last = NotCalled
    /\ nsteps = 0

SpecRates == InitRates /\ [][CallStepV5]_vars

\* the conversion-to-direct rate the claim gives layer l, from the flags
\* the step recorded
StatedRate(l) ==
    LET M == params.phase_transition_multiplier[l] IN
    IF state.leap_type = "NO_LEAP" THEN params.gamma2d[l]
    ELSE IF state.dominant_leap_layer = l THEN FMul(params.gamma2d[l], M)
    ELSE IF state.is_critical[l]
         THEN FMul(params.gamma2d[l], One + FMul(M, 50))
    ELSE params.gamma2d[l]

MaxRelaxSteps == 80

\* the distance from the floor the relaxation is followed to: 0.1
RelaxTolerance == 10

\* a v5 or v4 engine and an agent whose inertia is on or above every floor;
\* the caller's loop passes the same pressure in every step: none, or
\* pressure on BASE only
InitRelax ==
    /\ \/ /\ ver = "v5"
          /\ params \in {ParamsV5Default, ParamsV5Static}
          /\ state \in InitStatesV5 \cup {OtherHigh}
          /\ engine = EngineV5Init
          /\ cast \in {[p |-> ZeroLayers, dt |-> dt] : dt \in DtValues}
                  \cup {[p |-> BasePressure, dt |-> One]}
       \/ /\ ver = "v4"
          /\ params = ParamsV4Default
          /\ state \in InitStatesV4
          /\ engine = EngineV4Init(params)
          /\ cast \in {[p |-> ZeroLayers4, dt |-> One],
                       [p |-> [l \in Layers4 |-> IF l = "BASE" THEN -200 ELSE 0],
                        dt |-> One]}
    /\ last = NotCalled
    /\ nsteps = 0

\* one pass of the loop: engine.step(state, p, dt=dt) without other_states
RelaxStep ==
    /\ nsteps < MaxRelaxSteps
    /\ \E r \in {IF ver = "v5"
                 THEN StepV5(params, engine, state, cast.p, <<>>, NoCast, cast.dt)
                 ELSE StepV4(params, engine, state, cast.p, cast.dt, <<>>)} :
        /\ state' = r.state
        /\ engine' = r.engine
        /\ params' = r.params
        /\ last' = [called |-> TRUE, pre |-> state, p |-> cast.p,
                    F |-> <<>>, dt |-> cast.dt, locals |-> r.locals]
    /\ nsteps' = nsteps + 1
    /\ UNCHANGED <<ver, cast>>

\* a pass of the loop, seen by its counter alone
LoopAdvances == nsteps < MaxRelaxSteps /\ nsteps' = nsteps + 1

\* the loop keeps stepping the agent until it has made its passes
SpecRelax == InitRelax /\ [][RelaxStep]_vars /\ WF_nsteps(LoopAdvances)

\* the layers that receive no pressure
Unpressed == {l \in DOMAIN cast.p : cast.p[l] = 0}

\* C21: with zero pressure on a layer and no social coupling, the layer's
\* inertia never increases from one step to the next, is never below its
\* floor, and relaxes toward the floor: it eventually comes within the
\* distance RelaxTolerance of kappa_min and stays there.
InertiaRelaxesToFloor ==
    /\ [][\A l \in Unpressed : state'.kappa[l] <= state.kappa[l]]_vars
    /\ [](\A l \in Unpressed : state.kappa[l] >= params.kappa_min[l])
    /\ <>[](\A l \in Unpressed :
                state.kappa[l] - params.kappa_min[l] <= RelaxTolerance)

\* after some steps without pressure an inertia that started more than
\* RelaxTolerance above its floor is within that distance of it, in the
\* v5 engine on the floor itself
RelaxedFromAbove ==
    /\ last.called
    /\ \E l \in Unpressed :
        /\ last.pre.kappa[l] > params.kappa_min[l] + RelaxTolerance
        /\ state.kappa[l] <= params.kappa_min[l] + RelaxTolerance
        /\ ver = "v5" => state.kappa[l] = params.kappa_min[l]

\* ================================================== dynamic thresholds
\* dynamic_theta_sensitivity of the ParameterSet: 0.0, the default 0.3, the
\* 0.5 and 0.7 of the module's demonstrations, and 1.0
Sensitivities == {0, 30, 50, 70, 100}

\* an engine in integrated mode with any sensitivity, a state with any of
\* the energy profiles (inertia from 0.1 to 3.0), and the pressures of the
\* step: none, 0.05 or 1.0 on every layer, or -2.0 on BASE
InitTheta ==
    /\ ver = "v5"
    /\ params \in {[ParamsV5Default EXCEPT !.dynamic_theta_sensitivity = x] :
                    x \in Sensitivities}
    /\ state \in InitStatesV5
            \cup {StateV5(ChargedEnergies, [l \in Layers |-> 100]),
                  OtherLow, OtherHigh}
    /\ engine = EngineV5Init
    /\ cast \in {[p |-> q] : q \in {ZeroLayers, [l \in Layers |-> 5],
                                    UniformPressure, BasePressure}}
    /\ last = NotCalled
    /\ nsteps = 0

\* section 6 of step() in integrated mode: the structural powers, the
\* dynamic threshold of every layer, and the leap detection with the flags
\* it writes to the state
DetectLeap ==
    /\ nsteps = 0
    /\ LET powers == CalculateStructuralPowers(state, cast.p)
           theta_dynamic == [l \in Layers |->
                ComputeDynamicTheta(params, params.Theta[l], powers[l],
                                    state.kappa[l], R_values[l])]
           leap == IntegratedLeapDetection(params, state, powers)
       IN  /\ state' = [state EXCEPT
                            !.structural_powers = powers,
                            !.is_critical = leap.is_critical,
                            !.dominant_leap_layer = leap.dominant_layer,
                            !.leap_type = leap.leap_type]
           /\ last' = [called |-> TRUE, pre |-> state,
                       theta_dynamic |-> theta_dynamic,
                       denominator |-> [l \in Layers |->
                            state.kappa[l] * R_values[l] + One]]
    /\ nsteps' = 1
    /\ UNCHANGED <<ver, params, engine, cast>>

SpecTheta == InitTheta /\ [][DetectLeap]_vars

\* C22: for sensitivity in [0, 1] and non-negative power, inertia and R,
\* 0.3 * Theta_static <= Theta_dyn <= Theta_static, the denominator
\* inertia * R + 1 is not zero, and every layer that is critical in
\* integrated mode has its energy below the static threshold too.
DynamicThetaWithinStaticBand ==
    last.called =>
        \A l \in Layers :
            /\ FMul(params.Theta[l], 30) <= last.theta_dynamic[l]
            /\ last.theta_dynamic[l] <= params.Theta[l]
            /\ last.denominator[l] > 0
            /\ state.is_critical[l] =>
                /\ state.E[l] < last.theta_dynamic[l]
                /\ state.E[l] < params.Theta[l]

\* a detection in which one layer's threshold was lowered to its floor
\* 0.3 * Theta, another layer's was lowered strictly between the floor and
\* the static value with that layer critical, and a layer between its
\* dynamic and its static threshold was not critical
ThresholdsLoweredAndFloored ==
    /\ last.called
    /\ \E l \in Layers :
        /\ last.theta_dynamic[l] = FMul(params.Theta[l], 30)
    /\ \E l \in Layers :
        /\ last.theta_dynamic[l] > FMul(params.Theta[l], 30)
        /\ last.theta_dynamic[l] < params.Theta[l]
        /\ state.is_critical[l]
    /\ \E l \in Layers :
        /\ state.E[l] >= last.theta_dynamic[l]
        /\ state.E[l] < params.Theta[l]
        /\ ~state.is_critical[l]

\* ============================================ a v3.5 engine in a loop
\* step() calls a caller's loop makes on the v3.5 engine
MaxLoopSteps == 4

\* create_revolution_params() with a reservoir of 20000.0, less than two
\* amplified steps draw
RevolutionParamsSmallReservoir ==
    [RevolutionParams EXCEPT !.reservoir_capacity = 2000000]

\* SSDCoreEngineV3_5.reset_statistics
ResetStatisticsV35(eng) ==
    [eng EXCEPT !.total_conversion_i2d = 0, !.total_conversion_d2i = 0,
                !.total_decay = 0, !.time = 0]

\* one engine constructed with a preset, and one state that starts
\* non-critical; cast keeps the configured conversion rate
InitLoopV35 ==
    /\ ver = "v35"
    /\ params \in ParamPresetsV35 \cup {RevolutionParamsSmallReservoir}
    /\ state \in InitStatesV35
    /\ engine = EngineV35Init(params)
    /\ cast = [configured_gamma_i2d |-> params.gamma_i2d]
    /\ last = [called |-> FALSE, entered |-> 0]
    /\ nsteps = 0

\* engine.step(state, p_external, dt, contact_pressure); last.entered
\* counts the calls that found the state non-critical and left it critical
LoopStepV35 ==
    /\ nsteps < MaxLoopSteps
    /\ \E inp \in CallInputsV35, dt \in DtValues :
        \E r \in {StepV35(params, engine, state, inp.p, dt, inp.contact)} :
            /\ state' = r.state
            /\ engine' = r.engine
            /\ params' = r.params
            /\ last' = [called |-> TRUE, pre |-> state, engine_pre |-> engine,
                        p |-> inp.p, F |-> inp.contact, dt |-> dt,
                        locals |-> r.locals,
                        entered |-> last.entered +
                            (IF ~state.is_critical /\ r.state.is_critical
                             THEN 1 ELSE 0)]
    /\ nsteps' = nsteps + 1
    /\ UNCHANGED <<ver, cast>>

\* engine.reset_statistics()
ResetStatistics ==
    /\ engine.time # 0
    /\ engine' = ResetStatisticsV35(engine)
    /\ UNCHANGED <<ver, params, state, cast, last, nsteps>>

NextLoopV35 == LoopStepV35 \/ ResetStatistics

SpecLoopV35 == InitLoopV35 /\ [][NextLoopV35]_vars

\* C23: with phase transition enabled, for one engine stepping one state
\* that starts non-critical, after any sequence of step() calls
\* params.gamma_i2d is the configured value times
\* phase_transition_multiplier when state.is_critical is true and the
\* configured value when it is false, and phase_transition_count is the
\* number of non-critical-to-critical transitions.
GammaTracksCriticalFlag ==
    params.enable_phase_transition =>
        /\ state.is_critical =>
            params.gamma_i2d = FMul(cast.configured_gamma_i2d,
                                    params.phase_transition_multiplier)
        /\ ~state.is_critical =>
            params.gamma_i2d = cast.configured_gamma_i2d
        /\ state.phase_transition_count = last.entered

\* the state entered the critical regime, left it, and entered it again
EnteredLeftEnteredAgain ==
    /\ params.enable_phase_transition
    /\ last.called
    /\ state.is_critical
    /\ ~last.pre.is_critical
    /\ state.phase_transition_count = 2
    /\ params.gamma_i2d > cast.configured_gamma_i2d

\* ==================================== v3.5 engines sharing a ParameterSet
\* the agents stepped through engines constructed with the same
\* SSDParametersV3_5 object
SharingAgents == {1, 2}

\* params = create_revolution_params(); one SSDCoreEngineV3_5(params) and
\* one state per agent
InitShared ==
    /\ ver = "v35"
    /\ params = RevolutionParams
    /\ state \in [SharingAgents -> InitStatesV35]
    /\ engine = [a \in SharingAgents |-> EngineV35Init(params)]
    /\ cast = [configured_gamma_i2d |-> params.gamma_i2d]
    /\ last = NotCalled
    /\ nsteps = 0

\* engines[a].step(states[a], p_external, dt, contact_pressure): the
\* engine reads and writes the ParameterSet it shares with the others
StepSharing(a) ==
    /\ nsteps < MaxLoopSteps
    /\ \E p_external \in {0, 100}, contact \in {<<>>, <<500>>} :
        \E r \in {StepV35(params, engine[a], state[a], p_external, One,
                          contact)} :
            /\ state' = [state EXCEPT ![a] = r.state]
            /\ engine' = [engine EXCEPT ![a] = r.engine]
            /\ params' = r.params
            /\ last' = [called |-> TRUE, agent |-> a, pre |-> state,
                        p |-> p_external, F |-> contact, dt |-> One]
    /\ nsteps' = nsteps + 1
    /\ UNCHANGED <<ver, cast>>

NextShared == \E a \in SharingAgents : StepSharing(a)

SpecShared == InitShared /\ [][NextShared]_vars

\* C24 as stated: when two or more states are stepped, in any
\* interleaving, through v3.5 engines that share one ParameterSet,
\* gamma_i2d stays within {configured value, configured value *
\* phase_transition_multiplier}.
SharedGammaWithinConfiguredPair ==
    params.gamma_i2d \in
        {cast.configured_gamma_i2d,
         FMul(cast.configured_gamma_i2d, params.phase_transition_multiplier)}

\* ================================================ energy without input
\* C25 as stated: in a step with zero pressure on every layer, no direct
\* force, no social coupling and non-negative conversion and decay
\* coefficients, the agent's total energy (direct + all layers) after the
\* step is not greater than before it.
TotalEnergyNeverGrowsWithoutInput ==
    /\ ver \in {"v5", "v4"}
    /\ last.called
    /\ \A l \in DOMAIN last.p : last.p[l] = 0
    /\ last.F = <<>>
    /\ ~cast.given
    /\ \A l \in DOMAIN params.beta :
        params.beta[l] >= 0 /\ params.gamma2d[l] >= 0 /\ params.gammad2[l] >= 0
    => SumOver(state.E, DOMAIN state.E) <= SumOver(last.pre.E, DOMAIN last.pre.E)

\* ======================================= amplification of the dominant layer
\* a v5 engine in integrated mode and an agent under pressure on one of the
\* two upper layers only, 1.0 in every step of the caller's loop
InitDominance ==
    /\ ver = "v5"
    /\ params = ParamsV5Default
    /\ state \in InitStatesV5
            \cup {StateV5(ChargedEnergies, [l \in Layers |-> 100]),
                  StateV5(EnergiesV5(0, 0, 0, 5000, 0), [l \in Layers |-> 100])}
    /\ engine = EngineV5Init
    /\ cast \in {[p |-> [l \in Layers |-> IF l = only THEN One ELSE 0],
                  dt |-> dt] : only \in {"CORE", "UPPER"}, dt \in DtValues}
    /\ last = NotCalled
    /\ nsteps = 0

SpecDominance == InitDominance /\ [][RelaxStep]_vars

\* C26 as stated: in integrated mode, in every step where a leap is
\* detected, the amplification factor (effective gamma / configured gamma)
\* of the dominant layer is at least as large as that of every other layer.
DominantLayerMostAmplified ==
    /\ last.called
    /\ params.use_integrated_leap_detection
    /\ state.leap_type # "NO_LEAP"
    => \A l \in Layers :
        last.locals.gamma[l] * params.gamma2d[state.dominant_leap_layer]
            <= last.locals.gamma[state.dominant_leap_layer] * params.gamma2d[l]

\* ------------------------------------------------------------------
\* enable_phase_transition = False
\* ------------------------------------------------------------------

\* SSDParametersV5(enable_phase_transition=False): integrated detection
\* keeps its default, True
ParamsV5IntegratedNoTransition ==
    [ParamsV5Default EXCEPT !.enable_phase_transition = FALSE]

\* engines constructed with the phase transition switched off, in
\* either detection mode of v5 and in v4
InitSwitchedOff ==
    /\ \/ /\ ver = "v5"
          /\ params \in {ParamsV5IntegratedNoTransition, ParamsV5NoTransition}
          /\ state \in InitStatesV5
          /\ engine = EngineV5Init
          /\ cast \in Casts
       \/ /\ ver = "v4"
          /\ params = ParamsV4NoTransition
          /\ state \in InitStatesV4
          /\ engine = EngineV4Init(params)
          /\ cast = NoCast
    /\ last = NotCalled
    /\ nsteps = 0

NextSwitchedOff == CallStepV5 \/ CallStepV4

SpecSwitchedOff == InitSwitchedOff /\ [][NextSwitchedOff]_vars

\* C27 as stated: with enable_phase_transition = False a step leaves
\* every critical flag unset and converts every layer to direct at its
\* configured rate, in either detection mode
SwitchedOffNeverAmplifies ==
    last.called /\ ~params.enable_phase_transition
        => \A l \in DOMAIN state.is_critical :
            /\ ~state.is_critical[l]
            /\ last.locals.gamma[l] = params.gamma2d[l]

\* ------------------------------------------------------------------
\* the v3.5 physics preset
\* ------------------------------------------------------------------

\* the settings create_physics_params() makes
PhysicsPreset ==
    /\ params.gamma_i2d = 0
    /\ params.gamma_d2i = 0
    /\ params.beta_decay = 0
    /\ ~params.use_indirect_action
    /\ ~params.enable_phase_transition

\* C28 as stated: under the physics preset E_direct and E_indirect are
\* the same after every step() as before it, for any contact pressure
PhysicsPresetConserves ==
    last.called /\ PhysicsPreset
        => /\ state.E_direct = last.pre.E_direct
           /\ state.E_indirect = last.pre.E_indirect

\* ------------------------------------------------------------------
\* the v3.5 reservoir
\* ------------------------------------------------------------------

\* C29: in the v3.5 engine the reservoir is a bounded pool that is never
\* refilled: after any sequence of steps 0 <= reservoir_E <=
\* reservoir_capacity and reservoir_E is not above its value before the
\* last step; in a step the amplification energy is added to the indirect
\* production only if the reservoir holds at least that amount, and then
\* the reservoir decreases by exactly that amount, otherwise neither
\* changes.
ReservoirBoundedPool ==
    /\ 0 <= engine.reservoir_E
    /\ engine.reservoir_E <= params.reservoir_capacity
    /\ last.called =>
        LET before == last.engine_pre.reservoir_E
            amount == last.locals.E_amplification
            added == last.locals.E_indirect_production
                     - last.locals.base_production
        IN  /\ engine.reservoir_E <= before
            /\ added # 0 => before >= amount
            /\ IF added # 0
               THEN added = amount /\ engine.reservoir_E = before - amount
               ELSE engine.reservoir_E = before

\* a step asked for more amplification energy than a partly drained
\* reservoir held, and drew nothing
DrainedReservoirRefused ==
    /\ last.called
    /\ last.locals.E_amplification > last.engine_pre.reservoir_E
    /\ last.engine_pre.reservoir_E < params.reservoir_capacity
    /\ last.locals.E_indirect_production = last.locals.base_production
    /\ last.locals.base_production > 0

\* ------------------------------------------------------------------
\* the recorded inertia coupling
\* ------------------------------------------------------------------

\* C30 as stated: for every layer the kappa_coupling diagnostic recorded
\* by step() is the social inertia contribution that the same step added,
\* times dt, to that layer's inertia
KappaCouplingRecordedAsApplied ==
    last.called /\ ver = "v5" =>
        \A l \in Layers :
            state.kappa_coupling[l] = last.locals.coupling_kappa[l]

=============================================================================
